---------------------------- MODULE Spec2Model ----------------------------
(***************************************************************************)
(* Model of the MortalCoin trading bot (mortalcoin_alith_bot).             *)
(*                                                                         *)
(*   - Ledger Transaction Submitter: blockchain/transactions.py            *)
(*       build_sign_send_transaction          (specification SpecTx)       *)
(*   - Authenticated Gateway: backend_client.py                            *)
(*       _authenticate, _refresh_access_token, _request_with_retry         *)
(*                                            (specification SpecGw)       *)
(*   - Contest Orchestrator, per-contest monitoring task: game_manager.py  *)
(*       _game_loop, _execute_decision, _finish_game                       *)
(*                                            (specification SpecGame)     *)
(*   - Contest Orchestrator, discovery loop and push channel:              *)
(*       game_manager.py _monitor_games, _ensure_websocket_health,         *)
(*       _connect_websocket_with_current_token, _find_and_join_game,       *)
(*       _join_game; websocket_client.py   (specification SpecDisc)        *)
(*   - Contest Orchestrator, deferred join: game_manager.py _join_game,    *)
(*       _handle_signature_ready           (specification SpecJoin)        *)
(*   - Contest Orchestrator, shutdown: game_manager.py start, stop         *)
(*                                         (specification SpecStop)        *)
(*   - Contest Orchestrator, threads that submit to the ledger: the event  *)
(*     loop and the executor thread        (specification SpecSub)         *)
(*   - Push Channel Client, listen tasks and reconnects: websocket_client  *)
(*     listen, game_manager _connect_websocket_with_current_token          *)
(*                                         (specification SpecListen)      *)
(*   - Push Channel Client, decoding and dispatch of one frame:            *)
(*     websocket_client listen, _handle_message; game_manager              *)
(*     _handle_signature_ready             (specification SpecFrames)      *)
(*                                                                         *)
(* Optional values (Python None) are sequences of length 0 or 1, or the    *)
(* integer 0 where the value is a token.  An error message is modelled by  *)
(* the set of the marker substrings the code searches for that occur in    *)
(* it, so that `'x' in message` is membership.                             *)
(***************************************************************************)
EXTENDS Integers, Sequences, FiniteSets, TLC

VARIABLES
    \* ---- the ledger, as seen by the submitter ----
    chain_pending,      \* get_transaction_count(address, 'pending')
    \* ---- build_sign_send_transaction (one call) ----
    tx_pc,              \* position in the function
    tx_retries,         \* parameter `retries`
    tx_attempt,         \* loop variable `attempt`
    tx_current_nonce,   \* local `current_nonce` (<<>> while unbound)
    tx_nonce_attempt,   \* history: attempt in which current_nonce was fetched
    tx_signed_txn,      \* local `signed_txn` (<<>> while unbound)
    tx_hash,            \* local `tx_hash` of the accepted broadcast
    tx_exc,             \* exception in flight to the except clause
    tx_last_error,      \* local `last_error`
    tx_message,         \* local `message`
    tx_return,          \* <<>> or <<(hash, receipt)>> returned to the caller
    tx_raised,          \* <<>> or <<error>> raised to the caller
    tx_broadcasts,      \* history: every send_raw_transaction call
    tx_ends,            \* history: how every failed attempt ended
    \* ---- BackendClient (the Gateway) ----
    auth_token,         \* BackendClient.auth_token (0 is None)
    refresh_token,      \* BackendClient.refresh_token (0 is None)
    srv_issued,         \* backend: number of access tokens issued so far
    gw,                 \* per task: its _request_with_retry call in progress
    \* ---- the contest on the ledger, the clock, the history store ----
    now,                \* time.time(), in seconds
    contract_state,     \* games(id).state
    game_end,           \* games(id).gameEndTimestamp
    ledger_pos,         \* the participant's open position on the ledger
    db_last,            \* GameDatabase.get_last_position(game_id)
    \* ---- GameManager._game_loop for one contest ----
    running,            \* GameManager.running
    game_pc,            \* "new", "loop" or "ended"
    game_exit,          \* how the task ended
    current_position,   \* local current_position ("none" is None)
    position_entry_price,   \* local position_entry_price (0 is None)
    position_open_time, \* local position_open_time (-1 is None)
    iter,               \* history: the last iteration of the loop
    forced_closes,      \* history: forced close decisions issued
    held_in_window,     \* history: a position was tracked with <= 5 s left
    \* ---- GameManager._monitor_games and the push channel ----
    active_games,       \* GameManager.active_games: contest -> task state
    user_id,            \* BackendClient.user_id (0 is None)
    chain_in_game,      \* playerGameInfo: 0, or the contest the bot is in
    ws_socket,          \* WebSocketClient.websocket (0 is None, else its number)
    ws_open,            \* that connection is open
    ws_conn_token,      \* the token that connection was authenticated with
    ws_running,         \* WebSocketClient.running
    ws_client_token,    \* WebSocketClient.auth_token
    websocket_task,     \* GameManager.websocket_task (0 is None)
    last_ws_token_sent, \* GameManager._last_ws_token_sent (0 is None)
    disc_pc,            \* position of the discovery task in its tick
    tick,               \* history: what the current tick has done
    last_dispatch,      \* history: the last grant frame dispatched: was a
                        \* token cached, and was it the connection's token
    \* ---- GameManager._join_game and _handle_signature_ready ----
    pending_trading_fight_id,   \* GameManager.pending_trading_fight_id (0 is None)
    join_pc,            \* position of the grant-ready handler
    grant,              \* the frame the handler is working on
    join_log,           \* history: announcements, grants, joinGame, start-fight
    \* ---- GameManager.start and stop ----
    session_open,       \* BackendClient.session is an open ClientSession
    stop_pc,            \* position of start()/stop()
    stop_log,           \* history: the steps stop() has performed
    last_iteration,     \* history: when a monitoring task last ran an iteration
    \* ---- ledger submissions in progress ----
    loop_submission,    \* the submission the event-loop thread is executing
    finish_call,        \* per contest: the run_in_executor call of finishGame
    submitted,          \* history: the submissions begun so far
    \* ---- listen tasks and connections of the push channel ----
    listen_tasks,       \* every task created from listen(), in creation order
    open_conns,         \* the connections that are open
    frames_sent,        \* per connection: frames the server has sent
    frames_rcvd,        \* per connection: frames a listen task has received
    listen_pc,          \* position of _connect_websocket_with_current_token
    dispatched,         \* history: the frames handed to _handle_message
    duplicate_dispatch, \* history: a frame was handed over a second time
    \* ---- decoding and dispatch of the frames of one connection ----
    message_handlers,   \* WebSocketClient.message_handlers (its keys)
    message_count,      \* WebSocketClient.message_count
    frame_loop,         \* the listen loop: "new", "receiving" or how it ended
    last_frame,         \* history: the frame received last
    handler_calls,      \* history: the handlers called for it, in order
    frame_effects,      \* history: ledger and Gateway calls it caused
    \* ---- GameManager._execute_decision, the open branch (one call) ----
    open_pc,            \* position in the branch
    open_call,          \* the arguments, and the locals direction and nonce
    open_request,       \* <<>> or <<the sign-position payload sent>>
    open_grant,         \* <<>> or <<the Gateway's answer>>
    open_tx,            \* <<>> or <<the postPosition submission>>
    open_recorded,      \* <<>> or <<the Position this call recorded>>
    open_db,            \* the history store: <<>> or <<its last Position>>
    open_return,        \* "none" while running, else the value returned
    \* ---- build_sign_send_transaction, the fees of one call ----
    fee_pc,             \* "idle", "build" (top of an attempt), "sent", "done"
    fee_params,         \* tx_params: the caller's fee fields (0 is absent)
    fee_retries,        \* parameter `retries`
    fee_attempt,        \* loop variable `attempt`
    fee_base,           \* the latest block's baseFeePerGas
    fee_offers          \* history: the fees of every attempt's transaction

txVars == << chain_pending, tx_pc, tx_retries, tx_attempt, tx_current_nonce,
             tx_nonce_attempt, tx_signed_txn, tx_hash, tx_exc, tx_last_error,
             tx_message, tx_return, tx_raised, tx_broadcasts, tx_ends >>

gwVars == << auth_token, refresh_token, srv_issued, gw >>

gameVars == << now, contract_state, game_end, ledger_pos, db_last, running,
               game_pc, game_exit, current_position, position_entry_price,
               position_open_time, iter, forced_closes, held_in_window >>

discVars == << active_games, user_id, chain_in_game, ws_socket, ws_open,
               ws_conn_token, ws_running, ws_client_token, websocket_task,
               last_ws_token_sent, disc_pc, tick, last_dispatch >>

joinVars == << pending_trading_fight_id, join_pc, grant, join_log >>

stopVars == << session_open, stop_pc, stop_log, last_iteration >>

subVars == << loop_submission, finish_call, submitted >>

openVars == << open_pc, open_call, open_request, open_grant, open_tx,
              open_recorded, open_db, open_return >>

feeVars == << fee_pc, fee_params, fee_retries, fee_attempt, fee_base,
             fee_offers >>

discRest == << user_id, chain_in_game, ws_socket, ws_open, ws_conn_token,
               ws_running, ws_client_token, websocket_task,
               last_ws_token_sent, disc_pc, tick, last_dispatch >>

listenVars == << listen_tasks, open_conns, frames_sent, frames_rcvd,
                 listen_pc, dispatched, duplicate_dispatch >>

\* the variables of the components that share nothing with the others
frameVars == << message_handlers, message_count, frame_loop, last_frame,
                handler_calls, frame_effects >>

auxVars == << listenVars, frameVars, openVars, feeVars >>

vars == << txVars, gwVars, gameVars, discVars, joinVars, stopVars, subVars,
           auxVars >>

---------------------------------------------------------------------------
(* Bounds *)
MaxRetries == 2         \* largest `retries` argument explored
MaxNonce == 3           \* cap on the ledger's pending nonce
MaxTokens == 3          \* cap on the access tokens the backend issues
MaxTime == 8            \* the clock stops here
MaxStep == 7            \* longest time one loop iteration takes, in seconds
GameDuration == 6       \* seconds from contest start to gameEndTimestamp
MaxPositionNonce == 2   \* position nonces are drawn from 1..MaxPositionNonce
MaxPrice == 1           \* market prices are drawn from 1..MaxPrice
MaxConns == 2           \* cap on the push connections opened
MaxFrames == 2          \* frames counted by one listen loop
MaxConnFrames == 1      \* frames the server sends on one connection
MaxJoinEvents == 4      \* cap on the length of join_log
MaxFee == 30            \* largest fee level explored, in gwei

(* Program constants *)
BumpPercent == 115      \* fee_bump_factor = 1.15, in hundredths
PriorityTip == 2        \* web3.to_wei(2, 'gwei'), in gwei
DefaultRetries == 2     \* retries: int = 2
StatusSuccess == 1      \* receipt['status'] of a successful transaction
StateStarted == 2       \* games(id).state of a started contest
StateFinished == 3      \* games(id).state of a finished contest
AutoCloseSeconds == 5   \* `if time_until_end <= 5`

---------------------------------------------------------------------------
(* Error messages of the provider, by the marker substrings they contain.  *)
(* "replacement transaction underpriced" contains "transaction underpriced" *)
MsgAlreadyKnown == {"already known"}
MsgNonceTooLow == {"nonce too low"}
MsgReplacementUnderpriced ==
    {"replacement transaction underpriced", "transaction underpriced"}
MsgUnderpriced == {"transaction underpriced"}
MsgOther == {}

\* mutant: the 'already known' branch is never taken
AlreadyKnown_Never(message) == FALSE

\* 'already known' in message
AlreadyKnown(message) == "already known" \in message

\* retryable = 'nonce too low' in message or 'replacement transaction
\*             underpriced' in message or 'transaction underpriced' in message
Retryable(message) ==
    \/ "nonce too low" \in message
    \/ "replacement transaction underpriced" \in message
    \/ "transaction underpriced" \in message

\* mutant: the budget test is off by one
ShouldRetry_OffByOne(attempt, retries, message) ==
    attempt <= retries /\ Retryable(message)

\* mutant: every error is retried while attempts remain
ShouldRetry_AnyError(attempt, retries, message) ==
    attempt < retries

\* `if attempt < retries and retryable: ... continue`
ShouldRetry(attempt, retries, message) ==
    attempt < retries /\ Retryable(message)

\* `if receipt['status'] != 1: raise` on the broadcast path
ReceiptOk(status) == status = StatusSuccess

\* mutant: the 'already known' path returns whatever receipt it gets
KnownReceiptOk_Unchecked(status) == TRUE

\* `if receipt['status'] != 1: raise` on the 'already known' path
KnownReceiptOk(status) == status = StatusSuccess

\* mutant: the nonce is fetched once, before the first attempt
FetchesNonce_OnlyFirst(attempt) == attempt = 0

\* the nonce is fetched at the top of every iteration of the attempt loop
FetchesNonce(attempt) == TRUE

\* Web3.keccak(raw): the hash of a signed transaction identifies it
Keccak(signed) == signed

\* errors send_raw_transaction can answer for a transaction with nonce n
\* while the account's pending nonce is p
BroadcastErrors(n, p) ==
    {MsgAlreadyKnown, MsgUnderpriced, MsgOther}
      \cup (IF n < p THEN {MsgNonceTooLow, MsgReplacementUnderpriced} ELSE {})

Error(kind, msg, attempt) == [kind |-> kind, msg |-> msg, attempt |-> attempt]

---------------------------------------------------------------------------
\* the submitter touches nothing outside its own call frame and the ledger
TxFrame ==
    UNCHANGED << gwVars, gameVars, discVars, joinVars, stopVars, subVars,
                 auxVars >>

InitTx ==
    /\ chain_pending = 0
    /\ tx_pc = "idle"
    /\ tx_retries = DefaultRetries
    /\ tx_attempt = 0
    /\ tx_current_nonce = << >>
    /\ tx_nonce_attempt = 0
    /\ tx_signed_txn = << >>
    /\ tx_hash = << >>
    /\ tx_exc = << >>
    /\ tx_last_error = << >>
    /\ tx_message = {}
    /\ tx_return = << >>
    /\ tx_raised = << >>
    /\ tx_broadcasts = << >>
    /\ tx_ends = << >>

\* entry: `last_error = None`, then `for attempt in range(retries + 1)`
TxCall ==
    /\ TxFrame
    /\ tx_pc = "idle"
    /\ \E r \in 0..MaxRetries, p \in 0..1 :
          /\ tx_retries' = r
          /\ chain_pending' = p
    /\ tx_attempt' = 0
    /\ tx_last_error' = << >>
    /\ tx_pc' = "fetch_nonce"
    /\ UNCHANGED << tx_current_nonce, tx_nonce_attempt, tx_signed_txn, tx_hash,
                    tx_exc, tx_message, tx_return, tx_raised, tx_broadcasts,
                    tx_ends >>

\* current_nonce = web3.eth.get_transaction_count(account.address, 'pending')
TxFetchNonce ==
    /\ TxFrame
    /\ tx_pc = "fetch_nonce"
    /\ \/ /\ IF FetchesNonce(tx_attempt)
                THEN /\ tx_current_nonce' = << chain_pending >>
                     /\ tx_nonce_attempt' = tx_attempt
                ELSE UNCHANGED << tx_current_nonce, tx_nonce_attempt >>
          /\ tx_pc' = "sign"
          /\ UNCHANGED tx_exc
       \/ /\ tx_exc' = << Error("rpc", MsgOther, tx_attempt) >>
          /\ tx_pc' = "except"
          /\ UNCHANGED << tx_current_nonce, tx_nonce_attempt >>
    /\ UNCHANGED << chain_pending, tx_retries, tx_attempt, tx_signed_txn,
                    tx_hash, tx_last_error, tx_message, tx_return, tx_raised,
                    tx_broadcasts, tx_ends >>

\* build_transaction, gas, fees, sign_transaction
TxBuildSign ==
    /\ TxFrame
    /\ tx_pc = "sign"
    /\ \/ /\ tx_signed_txn' = << [nonce |-> tx_current_nonce[1],
                                  attempt |-> tx_attempt] >>
          /\ tx_pc' = "broadcast"
          /\ UNCHANGED tx_exc
       \/ /\ tx_exc' = << Error("build", MsgOther, tx_attempt) >>
          /\ tx_pc' = "except"
          /\ UNCHANGED tx_signed_txn
    /\ UNCHANGED << chain_pending, tx_retries, tx_attempt, tx_current_nonce,
                    tx_nonce_attempt, tx_hash, tx_last_error, tx_message,
                    tx_return, tx_raised, tx_broadcasts, tx_ends >>

\* tx_hash = web3.eth.send_raw_transaction(signed_txn.raw_transaction)
TxBroadcast ==
    /\ TxFrame
    /\ tx_pc = "broadcast"
    /\ LET signed == tx_signed_txn[1] IN
       /\ tx_broadcasts' = Append(tx_broadcasts,
              [attempt |-> tx_attempt, nonce |-> signed.nonce,
               fetched_in |-> tx_nonce_attempt, pending |-> chain_pending])
       /\ \/ /\ signed.nonce = chain_pending
             /\ chain_pending' = chain_pending + 1
             /\ tx_hash' = << Keccak(signed) >>
             /\ tx_pc' = "wait_receipt"
             /\ UNCHANGED tx_exc
          \/ /\ \E m \in BroadcastErrors(signed.nonce, chain_pending) :
                   tx_exc' = << Error("send", m, tx_attempt) >>
             /\ tx_pc' = "except"
             /\ UNCHANGED << chain_pending, tx_hash >>
    /\ UNCHANGED << tx_retries, tx_attempt, tx_current_nonce, tx_nonce_attempt,
                    tx_signed_txn, tx_last_error, tx_message, tx_return,
                    tx_raised, tx_ends >>

\* receipt = wait_for_transaction_receipt(tx_hash); status check; return
TxWaitReceipt ==
    /\ TxFrame
    /\ tx_pc = "wait_receipt"
    /\ \/ \E status \in {0, 1} :
            IF ReceiptOk(status)
              THEN /\ tx_return' = << [hash |-> tx_hash[1],
                                       receipt |-> [hash |-> tx_hash[1],
                                                    status |-> status]] >>
                   /\ tx_pc' = "returned"
                   /\ UNCHANGED tx_exc
              ELSE /\ tx_exc' = << Error("receipt", MsgOther, tx_attempt) >>
                   /\ tx_pc' = "except"
                   /\ UNCHANGED tx_return
       \/ /\ tx_exc' = << Error("timeout", MsgOther, tx_attempt) >>
          /\ tx_pc' = "except"
          /\ UNCHANGED tx_return
    /\ UNCHANGED << chain_pending, tx_retries, tx_attempt, tx_current_nonce,
                    tx_nonce_attempt, tx_signed_txn, tx_hash, tx_last_error,
                    tx_message, tx_raised, tx_broadcasts, tx_ends >>

\* the tail of the except clause: retry, or break and raise last_error
RetryOrBreak(message, last_error) ==
    IF ShouldRetry(tx_attempt, tx_retries, message)
      THEN /\ tx_attempt' = tx_attempt + 1
           /\ tx_pc' = "fetch_nonce"
           /\ UNCHANGED tx_raised
      ELSE /\ tx_pc' = "raised"
           /\ tx_raised' = last_error
           /\ UNCHANGED tx_attempt

\* except Exception as exc: last_error = exc; extract message; classify
TxExcept ==
    /\ TxFrame
    /\ tx_pc = "except"
    /\ LET exc == tx_exc[1] IN
       /\ tx_last_error' = << exc >>
       /\ tx_message' = exc.msg
       /\ tx_ends' = Append(tx_ends, exc)
       /\ IF AlreadyKnown(exc.msg)
            THEN /\ tx_pc' = "wait_known"
                 /\ UNCHANGED << tx_attempt, tx_raised >>
            ELSE RetryOrBreak(exc.msg, << exc >>)
    /\ tx_exc' = << >>
    /\ UNCHANGED << chain_pending, tx_retries, tx_current_nonce,
                    tx_nonce_attempt, tx_signed_txn, tx_hash, tx_return,
                    tx_broadcasts >>

\* 'already known': wait on the hash computed from signed_txn
TxWaitKnown ==
    /\ TxFrame
    /\ tx_pc = "wait_known"
    /\ IF tx_signed_txn = << >>
         THEN \* signed_txn unbound: NameError caught as wait_exc
              LET wait_exc == Error("unbound", MsgOther, tx_attempt) IN
              /\ tx_last_error' = << wait_exc >>
              /\ tx_ends' = Append(tx_ends, wait_exc)
              /\ RetryOrBreak(tx_message, << wait_exc >>)
              /\ UNCHANGED tx_return
         ELSE LET computed_hash == Keccak(tx_signed_txn[1]) IN
              \/ \E status \in {0, 1} :
                   IF KnownReceiptOk(status)
                     THEN /\ tx_return' = << [hash |-> computed_hash,
                                  receipt |-> [hash |-> computed_hash,
                                               status |-> status]] >>
                          /\ tx_pc' = "returned"
                          /\ UNCHANGED << tx_attempt, tx_raised, tx_last_error,
                                          tx_ends >>
                     ELSE LET wait_exc ==
                                Error("known_receipt", MsgOther, tx_attempt) IN
                          /\ tx_last_error' = << wait_exc >>
                          /\ tx_ends' = Append(tx_ends, wait_exc)
                          /\ RetryOrBreak(tx_message, << wait_exc >>)
                          /\ UNCHANGED tx_return
              \/ LET wait_exc == Error("known_timeout", MsgOther, tx_attempt) IN
                 /\ tx_last_error' = << wait_exc >>
                 /\ tx_ends' = Append(tx_ends, wait_exc)
                 /\ RetryOrBreak(tx_message, << wait_exc >>)
                 /\ UNCHANGED tx_return
    /\ UNCHANGED << chain_pending, tx_retries, tx_current_nonce,
                    tx_nonce_attempt, tx_signed_txn, tx_hash, tx_exc,
                    tx_message, tx_broadcasts >>

\* another transaction of the same account enters the ledger's pending set
\* while the call is in progress (join handler, finish in the executor)
ChainAdvance ==
    /\ TxFrame
    /\ tx_pc \notin {"idle", "returned", "raised"}
    /\ chain_pending < MaxNonce
    /\ chain_pending' = chain_pending + 1
    /\ UNCHANGED << tx_pc, tx_retries, tx_attempt, tx_current_nonce,
                    tx_nonce_attempt, tx_signed_txn, tx_hash, tx_exc,
                    tx_last_error, tx_message, tx_return, tx_raised,
                    tx_broadcasts, tx_ends >>

NextTx ==
    \/ TxCall
    \/ TxFetchNonce
    \/ TxBuildSign
    \/ TxBroadcast
    \/ TxWaitReceipt
    \/ TxExcept
    \/ TxWaitKnown
    \/ ChainAdvance

---------------------------------------------------------------------------
(* Authenticated Gateway: BackendClient                                    *)

\* the tasks that call the Gateway: the discovery loop, a monitoring task
Callers == {"discovery", "monitor"}

\* HTTP statuses the backend answers with
Statuses == {200, 401, 403, 500}

\* `status in (401, 403)`
Unauthorized(status) == status \in {401, 403}

GwIdle == [pc |-> "idle", require_auth |-> FALSE, headers |-> 0,
           status |-> 0, sent |-> << >>, refresh_posts |-> 0,
           refresh_ok |-> FALSE, result |-> 0, raised |-> FALSE]

\* mutant: a 401/403 on the retried request starts another refresh
AfterRetryResponse_RefreshAgain(status, require_auth) ==
    IF Unauthorized(status) /\ require_auth /\ refresh_token # 0
      THEN "refresh" ELSE "done"

\* `return response2.status, resp_text2, json_data2` whatever the status
AfterRetryResponse(status, require_auth) == "done"

\* `if status in (401, 403) and require_auth:` then _refresh_access_token,
\* which posts only `if self.refresh_token`
AfterFirstResponse(status, require_auth) ==
    IF Unauthorized(status) /\ require_auth /\ refresh_token # 0
      THEN "refresh" ELSE "done"

\* the outside frame of every Gateway step
GwFrame ==
    UNCHANGED << txVars, gameVars, discVars, joinVars, stopVars, subVars,
                 auxVars >>

InitGw ==
    /\ auth_token = 0
    /\ refresh_token = 0
    /\ srv_issued = 0
    /\ gw = [c \in Callers |-> GwIdle]

\* _request_with_retry is entered; with require_auth it awaits _authenticate,
\* which returns at once when a token is cached and posts a login otherwise;
\* then the Authorization header is set and the request is sent
StartCall(require_auth) ==
    IF require_auth /\ auth_token = 0
      THEN [GwIdle EXCEPT !.pc = "login", !.require_auth = require_auth]
      ELSE [GwIdle EXCEPT !.pc = "await1",
                          !.require_auth = require_auth,
                          !.headers = IF require_auth THEN auth_token ELSE 0,
                          !.sent = << IF require_auth THEN auth_token ELSE 0 >>]

\* a task calls the Gateway
GwCall(c) ==
    /\ GwFrame
    /\ gw[c].pc \in {"idle", "done"}
    /\ \E require_auth \in BOOLEAN :
          gw' = [gw EXCEPT ![c] = StartCall(require_auth)]
    /\ UNCHANGED << auth_token, refresh_token, srv_issued >>

\* the login response arrives in _authenticate
GwLogin(c) ==
    /\ GwFrame
    /\ gw[c].pc = "login"
    /\ \/ \* status 200: both tokens are stored, then the request is sent
          /\ srv_issued < MaxTokens
          /\ \E r \in {0, 1} : refresh_token' = r
          /\ auth_token' = srv_issued + 1
          /\ srv_issued' = srv_issued + 1
          /\ gw' = [gw EXCEPT ![c].pc = "await1",
                              ![c].headers = srv_issued + 1,
                              ![c].sent = << srv_issued + 1 >>]
       \/ \* status 200 without access_token: result.get stores None,
          \* _authenticate returns and the request is sent with "Bearer None"
          /\ \E r \in {0, 1} : refresh_token' = r
          /\ auth_token' = 0
          /\ gw' = [gw EXCEPT ![c].pc = "await1",
                              ![c].headers = 0,
                              ![c].sent = << 0 >>]
          /\ UNCHANGED srv_issued
       \/ \* any other status, or a transport error: _authenticate raises
          /\ gw' = [gw EXCEPT ![c].pc = "done", ![c].raised = TRUE]
          /\ UNCHANGED << auth_token, refresh_token, srv_issued >>

\* the response to the request arrives
GwResponse(c) ==
    /\ GwFrame
    /\ gw[c].pc = "await1"
    /\ \/ \E status \in Statuses :
            LET next == AfterFirstResponse(status, gw[c].require_auth) IN
            gw' = [gw EXCEPT ![c].status = status,
                             ![c].pc = next,
                             ![c].refresh_posts =
                                 IF next = "refresh" THEN 1 ELSE 0,
                             ![c].result = IF next = "done" THEN status ELSE 0]
       \/ \* transport error: the exception leaves _request_with_retry
          gw' = [gw EXCEPT ![c].pc = "done", ![c].raised = TRUE]
    /\ UNCHANGED << auth_token, refresh_token, srv_issued >>

\* the refresh response arrives in _refresh_access_token
GwRefreshResponse(c) ==
    /\ GwFrame
    /\ gw[c].pc = "refresh"
    /\ \/ \* 200 with access_token: store it, re-send with the new token
          /\ srv_issued < MaxTokens
          /\ auth_token' = srv_issued + 1
          /\ srv_issued' = srv_issued + 1
          /\ gw' = [gw EXCEPT ![c].pc = "await2",
                              ![c].refresh_ok = TRUE,
                              ![c].headers = srv_issued + 1,
                              ![c].sent = Append(@, srv_issued + 1)]
       \/ \* 200 without access_token, or a transport error: return False
          /\ gw' = [gw EXCEPT ![c].pc = "done", ![c].result = gw[c].status]
          /\ UNCHANGED << auth_token, srv_issued >>
       \/ \* any other status: self.auth_token = None, return False
          /\ auth_token' = 0
          /\ gw' = [gw EXCEPT ![c].pc = "done", ![c].result = gw[c].status]
          /\ UNCHANGED srv_issued
    /\ UNCHANGED refresh_token

\* the response to the re-sent request arrives
GwRetryResponse(c) ==
    /\ GwFrame
    /\ gw[c].pc = "await2"
    /\ \/ \E status \in Statuses :
            LET next == AfterRetryResponse(status, gw[c].require_auth) IN
            gw' = [gw EXCEPT ![c].status = status,
                             ![c].pc = next,
                             ![c].refresh_posts =
                                 IF next = "refresh" THEN @ + 1 ELSE @,
                             ![c].result = IF next = "done" THEN status ELSE 0]
       \/ gw' = [gw EXCEPT ![c].pc = "done", ![c].raised = TRUE]
    /\ UNCHANGED << auth_token, refresh_token, srv_issued >>

NextGw ==
    \/ \E c \in Callers : GwCall(c)
    \/ \E c \in Callers : GwLogin(c)
    \/ \E c \in Callers : GwResponse(c)
    \/ \E c \in Callers : GwRefreshResponse(c)
    \/ \E c \in Callers : GwRetryResponse(c)

---------------------------------------------------------------------------
(* Contest Orchestrator: the monitoring task of one contest                *)

Actions == {"open_long", "open_short", "close_position", "hold"}

\* the ways a call of build_sign_send_transaction ends: it returns a success
\* receipt, or it raises (non-success receipt, fatal error, retries exhausted)
SubmitOutcomes == {"confirmed", "receipt_failed", "fatal_error",
                   "retries_exhausted"}

Confirmed(outcome) == outcome = "confirmed"

NoPosition == "none"

\* the three locals that track the position
Tracking == << current_position, position_entry_price, position_open_time >>

NoTracking == << NoPosition, 0, -1 >>

NoIter == [branch |-> "none", state |-> -1, t |-> -1, before |-> NoTracking,
           oracle |-> FALSE, forced |-> FALSE, tx |-> << >>,
           success |-> "False", last_open |-> << >>]

\* mutant: the finished test compares with a state the contract never has
IsFinished_WrongState(state) == state = StateFinished + 1

\* `if game_info["state"] == 3`
IsFinished(state) == state = StateFinished

\* `if game_info["state"] != 2` is the negation of this
IsStarted(state) == state = StateStarted

\* `game_info["gameEndTimestamp"] > 0 and time.time() > gameEndTimestamp`
TimedOut(end, t) == end > 0 /\ t > end

\* `gameEndTimestamp > 0 and current_position` and `time_until_end <= 5`
AutoCloseDue(end, t, position) ==
    end > 0 /\ position # NoPosition /\ end - t <= AutoCloseSeconds

\* mutant: every close is submitted as a close of a long position
DirectionOf_AlwaysLong(position) == "Long"

\* Direction.Long if current_position == "long" else Direction.Short
DirectionOf(position) == IF position = "long" THEN "Long" ELSE "Short"

\* `nonce = last_position.nonce if last_position else 0`
LastNonce == IF db_last = << >> THEN 0 ELSE db_last[1].nonce

Result(success, tx, ledger, db) ==
    [success |-> success, tx |-> tx, ledger |-> ledger, db |-> db]

Submission(fn, direction, nonce, outcome) ==
    [fn |-> fn, direction |-> direction, nonce |-> nonce, outcome |-> outcome]

\* _execute_decision(game_id, decision, current_position, position_open_time):
\* the set of its possible results, over the answers of the Gateway, the
\* ledger and the history store
ExecuteDecision(action, position) ==
    IF action \in {"open_long", "open_short"} /\ position = NoPosition
      THEN LET direction == IF action = "open_long" THEN "Long" ELSE "Short" IN
           \* no grant, or a grant without backend_signature: bare `return`
           { Result("None", << >>, ledger_pos, db_last) }
           \cup
           \* postPosition raises: caught, `return False`
           { Result("False", << Submission("postPosition", direction, n, o) >>,
                    ledger_pos, db_last) :
               n \in 1..MaxPositionNonce,
               o \in SubmitOutcomes \ {"confirmed"} }
           \cup
           \* postPosition confirmed, position recorded: `return True`
           { Result("True", << Submission("postPosition", direction, n,
                                          "confirmed") >>,
                    << [direction |-> direction, nonce |-> n] >>,
                    << [direction |-> direction, nonce |-> n] >>) :
               n \in {m \in 1..MaxPositionNonce : ledger_pos = << >>} }
           \cup
           \* postPosition confirmed, record_position raises: `return False`
           { Result("False", << Submission("postPosition", direction, n,
                                           "confirmed") >>,
                    << [direction |-> direction, nonce |-> n] >>, db_last) :
               n \in {m \in 1..MaxPositionNonce : ledger_pos = << >>} }
    ELSE IF action = "close_position" /\ position # NoPosition
      THEN LET direction == DirectionOf(position)
               nonce == LastNonce IN
           \* get_last_position raises: caught, `return False`
           { Result("False", << >>, ledger_pos, db_last) }
           \cup
           \* closePosition raises: caught, `return False`
           { Result("False", << Submission("closePosition", direction, nonce,
                                           o) >>, ledger_pos, db_last) :
               o \in SubmitOutcomes \ {"confirmed"} }
           \cup
           \* closePosition confirmed: the ledger matched direction and nonce
           { Result("True", << Submission("closePosition", direction, nonce,
                                          "confirmed") >>, << >>, db_last) :
               x \in {y \in {1} : ledger_pos =
                          << [direction |-> direction, nonce |-> nonce] >>} }
    ELSE \* "No action taken"
         { Result("False", << >>, ledger_pos, db_last) }

\* the position tracking after a decision cycle (lines 556-571)
UpdateTracking(success, action, price, t) ==
    IF success = "True" /\ action = "open_long" THEN << "long", price, t >>
    ELSE IF success = "True" /\ action = "open_short"
      THEN << "short", price, t >>
    ELSE IF success = "True" /\ action = "close_position"
            /\ current_position # NoPosition
      THEN NoTracking
    ELSE Tracking

\* after the forced close the three locals are set to None (lines 471-473)
AfterAutoClose(success) == NoTracking

SetTracking(tr) ==
    /\ current_position' = tr[1]
    /\ position_entry_price' = tr[2]
    /\ position_open_time' = tr[3]

\* a position is tracked while the contest is live with <= 5 s to its end
HeldInWindow(position, state, end, t) ==
    /\ position # NoPosition
    /\ IsStarted(state)
    /\ end > 0 /\ end - t <= AutoCloseSeconds

\* one iteration takes d seconds, sleeps included
Advance(d) ==
    /\ now + d <= MaxTime
    /\ now' = now + d

\* history: the direction and nonce of the latest postPosition that was
\* confirmed (line 672: build_sign_send_transaction returned)
LastOpen(previous, tx) ==
    IF tx # << >> /\ tx[1].fn = "postPosition" /\ Confirmed(tx[1].outcome)
      THEN << [direction |-> tx[1].direction, nonce |-> tx[1].nonce] >>
      ELSE previous

\* the history written by every iteration
Record(branch, oracle, forced, tx, success) ==
    iter' = [branch |-> branch, state |-> contract_state, t |-> now,
             before |-> Tracking, oracle |-> oracle, forced |-> forced,
             tx |-> tx, success |-> success,
             last_open |-> LastOpen(iter.last_open, tx)]

NoteWindow ==
    held_in_window' =
        (held_in_window
           \/ HeldInWindow(current_position', contract_state', game_end', now'))

GameFrame ==
    UNCHANGED << txVars, gwVars, discVars, joinVars, stopVars, subVars,
                 auxVars >>

InitGame ==
    /\ now = 0
    /\ contract_state = 1
    /\ game_end = 0
    /\ ledger_pos = << >>
    /\ db_last = << >>
    /\ running = TRUE
    /\ game_pc = "new"
    /\ game_exit = "none"
    /\ current_position = NoPosition
    /\ position_entry_price = 0
    /\ position_open_time = -1
    /\ iter = NoIter
    /\ forced_closes = 0
    /\ held_in_window = FALSE

\* asyncio.create_task(self._game_loop(game_id)); lines 420-423
GameTaskStart ==
    /\ GameFrame
    /\ game_pc = "new"
    /\ game_pc' = "loop"
    /\ SetTracking(NoTracking)
    /\ UNCHANGED << now, contract_state, game_end, ledger_pos, db_last,
                    running, game_exit, iter, forced_closes, held_in_window >>

\* the ledger starts the contest
ContractStart ==
    /\ GameFrame
    /\ contract_state = 1
    /\ contract_state' = StateStarted
    /\ game_end' = now + GameDuration
    /\ UNCHANGED << now, ledger_pos, db_last, running, game_pc, game_exit,
                    current_position, position_entry_price,
                    position_open_time, iter, forced_closes, held_in_window >>

\* the opponent finishes the contest after its end
ContractFinish ==
    /\ GameFrame
    /\ contract_state = StateStarted
    /\ now > game_end
    /\ contract_state' = StateFinished
    /\ UNCHANGED << now, game_end, ledger_pos, db_last, running, game_pc,
                    game_exit, current_position, position_entry_price,
                    position_open_time, iter, forced_closes, held_in_window >>

\* stop(): running = False and the task is cancelled
GameStop ==
    /\ GameFrame
    /\ running
    /\ running' = FALSE
    /\ game_pc' = IF game_pc = "loop" THEN "ended" ELSE game_pc
    /\ game_exit' = IF game_pc = "loop" THEN "stopped" ELSE game_exit
    /\ UNCHANGED << now, contract_state, game_end, ledger_pos, db_last,
                    current_position, position_entry_price,
                    position_open_time, iter, forced_closes, held_in_window >>

Looping == game_pc = "loop" /\ running

\* mutant: an error inside a decision cycle ends the task
AfterCycleError_Ends(pc) == "ended"

\* the handlers of a failed market read, oracle call or submission only log,
\* sleep and `continue`: the task stays in its loop
AfterCycleError(pc) == pc

\* mutant: an error of the poll ends the task
AfterPollError_Ends(pc) == "ended"

\* `except Exception` at line 576: log, sleep(5), next iteration
AfterPollError(pc) == pc

\* get_game_info raises: caught at line 576, sleep(5)
IterPollError ==
    /\ GameFrame
    /\ Looping
    /\ \E d \in 1..MaxStep : Advance(d)
    /\ iter' = [NoIter EXCEPT !.branch = "poll_error", !.t = now,
                              !.before = Tracking,
                              !.last_open = iter.last_open]
    /\ game_pc' = AfterPollError(game_pc)
    /\ UNCHANGED << contract_state, game_end, ledger_pos, db_last, running,
                    game_exit, current_position,
                    position_entry_price, position_open_time, forced_closes >>
    /\ NoteWindow

\* state == 3: break
IterFinished ==
    /\ GameFrame
    /\ Looping
    /\ IsFinished(contract_state)
    /\ Record("finished", FALSE, FALSE, << >>, "False")
    /\ game_pc' = "ended"
    /\ game_exit' = "finished"
    /\ UNCHANGED << now, contract_state, game_end, ledger_pos, db_last,
                    running, current_position, position_entry_price,
                    position_open_time, forced_closes, held_in_window >>

\* state != 2: sleep(1), continue
IterNotStarted ==
    /\ GameFrame
    /\ Looping
    /\ ~IsFinished(contract_state)
    /\ ~IsStarted(contract_state)
    /\ \E d \in 1..MaxStep : Advance(d)
    /\ Record("not_started", FALSE, FALSE, << >>, "False")
    /\ UNCHANGED << contract_state, game_end, ledger_pos, db_last, running,
                    game_pc, game_exit, current_position,
                    position_entry_price, position_open_time, forced_closes >>
    /\ NoteWindow

\* past gameEndTimestamp: _finish_game(game_id, current_position), break
IterTimeout ==
    /\ GameFrame
    /\ Looping
    /\ ~IsFinished(contract_state)
    /\ IsStarted(contract_state)
    /\ TimedOut(game_end, now)
    /\ LET direction == IF current_position # NoPosition
                          THEN DirectionOf(current_position) ELSE "Long"
           nonce == IF current_position # NoPosition THEN LastNonce ELSE 0
       IN \/ \* get_last_position raises inside _finish_game: caught
             /\ current_position # NoPosition
             /\ Record("timeout", FALSE, FALSE, << >>, "False")
             /\ UNCHANGED contract_state
          \/ \E o \in SubmitOutcomes :
                /\ Record("timeout", FALSE, FALSE,
                          << Submission("finishGame", direction, nonce, o) >>,
                          IF Confirmed(o) THEN "True" ELSE "False")
                /\ contract_state' =
                      IF Confirmed(o) THEN StateFinished ELSE contract_state
    /\ game_pc' = "ended"
    /\ game_exit' = "timeout"
    /\ UNCHANGED << now, game_end, ledger_pos, db_last, running,
                    current_position, position_entry_price,
                    position_open_time, forced_closes, held_in_window >>

\* a position is tracked and <= 5 s remain: forced close, continue
IterAutoClose ==
    /\ GameFrame
    /\ Looping
    /\ ~IsFinished(contract_state)
    /\ IsStarted(contract_state)
    /\ ~TimedOut(game_end, now)
    /\ AutoCloseDue(game_end, now, current_position)
    /\ \E r \in ExecuteDecision("close_position", current_position) :
          /\ Record("auto_close", FALSE, TRUE, r.tx, r.success)
          /\ ledger_pos' = r.ledger
          /\ db_last' = r.db
          /\ SetTracking(AfterAutoClose(r.success))
    /\ forced_closes' = forced_closes + 1
    /\ \E d \in 1..MaxStep : Advance(d)
    /\ UNCHANGED << contract_state, game_end, running, game_pc, game_exit >>
    /\ NoteWindow

\* the decision cycle is reached
CycleReached ==
    /\ Looping
    /\ ~IsFinished(contract_state)
    /\ IsStarted(contract_state)
    /\ ~TimedOut(game_end, now)
    /\ ~AutoCloseDue(game_end, now, current_position)

\* _get_market_data raises: sleep(5), continue
IterMarketFail ==
    /\ GameFrame
    /\ CycleReached
    /\ \E d \in 1..MaxStep : Advance(d)
    /\ Record("market_error", FALSE, FALSE, << >>, "False")
    /\ game_pc' = AfterCycleError(game_pc)
    /\ UNCHANGED << contract_state, game_end, ledger_pos, db_last, running,
                    game_exit, current_position,
                    position_entry_price, position_open_time, forced_closes >>
    /\ NoteWindow

\* get_trading_decision raises: sleep(5), continue
IterOracleFail ==
    /\ GameFrame
    /\ CycleReached
    /\ \E d \in 1..MaxStep : Advance(d)
    /\ Record("oracle_error", TRUE, FALSE, << >>, "False")
    /\ game_pc' = AfterCycleError(game_pc)
    /\ UNCHANGED << contract_state, game_end, ledger_pos, db_last, running,
                    game_exit, current_position,
                    position_entry_price, position_open_time, forced_closes >>
    /\ NoteWindow

\* market read, oracle, _execute_decision, tracking update, sleep(1)
IterDecide ==
    /\ GameFrame
    /\ CycleReached
    /\ \E action \in Actions, price \in 1..MaxPrice :
         \E r \in ExecuteDecision(action, current_position) :
            /\ Record(action, TRUE, FALSE, r.tx, r.success)
            /\ ledger_pos' = r.ledger
            /\ db_last' = r.db
            /\ SetTracking(UpdateTracking(r.success, action, price, now))
            /\ game_pc' = IF r.tx # << >> /\ ~Confirmed(r.tx[1].outcome)
                            THEN AfterCycleError(game_pc) ELSE game_pc
    /\ \E d \in 1..MaxStep : Advance(d)
    /\ UNCHANGED << contract_state, game_end, running, game_exit,
                    forced_closes >>
    /\ NoteWindow

NextGame ==
    \/ GameTaskStart
    \/ ContractStart
    \/ ContractFinish
    \/ GameStop
    \/ IterPollError
    \/ IterFinished
    \/ IterNotStarted
    \/ IterTimeout
    \/ IterAutoClose
    \/ IterMarketFail
    \/ IterOracleFail
    \/ IterDecide

---------------------------------------------------------------------------
(* Contest Orchestrator: the discovery loop and the push channel           *)

Contests == {1, 2}

NewTick == [in_game |-> -1, listing_sent |-> FALSE, addopp_sent |-> FALSE,
            task_before |-> "none", task_after |-> "none",
            mismatch |-> FALSE, old_conn |-> 0, health_token |-> 0,
            raised |-> FALSE, done_before |-> {}]

NoDispatch == [seen |-> FALSE, cached |-> FALSE, same_token |-> FALSE]

\* bool(self.websocket_client.websocket) and bool(...running)
\* mutant: the health check looks at the connection object only
WsConnected_SocketOnly == ws_socket # 0

WsConnected == ws_socket # 0 /\ ws_running

\* mutant: the health check never compares the tokens
TokenChanged_Never(current, last) == FALSE

\* `if current_token and current_token != self._last_ws_token_sent`
TokenChanged(current, last) == current # 0 /\ current # last

\* `if not player_info["inGame"]:` and `if not self.active_games:`
SearchesForGames(in_game, active) ==
    in_game = 0 /\ \A id \in Contests : active[id] = "none"

\* `if game_id not in self.active_games:` create the task
EnsureTask(active, id) ==
    IF active[id] = "none" THEN [active EXCEPT ![id] = "running"] ELSE active

\* `if task.done(): completed_games.append(game_id)`
TasksDone(active) == {id \in Contests : active[id] = "done"}

\* "Clean up completed games": drop every task that is done
CleanUp(active) ==
    [id \in Contests |-> IF active[id] = "done" THEN "none" ELSE active[id]]

\* the start of _connect_websocket_with_current_token once a token is there:
\* copy the token, cancel the listen task, close the old connection
BeginReconnect(token) ==
    /\ ws_client_token' = token
    /\ ws_running' = FALSE
    /\ ws_open' = FALSE
    /\ disc_pc' = "connecting"

\* mutant: an exception raised inside a tick ends the discovery loop
AfterTickError_Ends(pc) == "ended"

\* `except Exception as e: logger.error(...)` inside `while self.running`
\* (line 173): the tick is over and the loop goes on to its sleep
AfterTickError(pc) == "sleep"

DiscFrame ==
    UNCHANGED << txVars, gameVars, joinVars, stopVars, subVars,
                 auxVars >>

InitDisc ==
    /\ active_games = [id \in Contests |-> "none"]
    /\ user_id = 0
    /\ chain_in_game = 0
    /\ ws_open = FALSE
    /\ ws_conn_token = 0
    /\ ws_socket = 0
    /\ ws_running = FALSE
    /\ ws_client_token = 0
    /\ websocket_task = 0
    /\ last_ws_token_sent = 0
    /\ disc_pc = "health"
    /\ tick = NewTick
    /\ last_dispatch = NoDispatch

\* top of a tick: _ensure_websocket_health up to its first await
DiscHealth ==
    /\ DiscFrame
    /\ disc_pc = "health"
    /\ running
    /\ LET reconnect == ~WsConnected
                          \/ TokenChanged(auth_token, last_ws_token_sent)
           mismatch == /\ WsConnected
                       /\ auth_token # 0
                       /\ auth_token # last_ws_token_sent
       IN /\ tick' = [NewTick EXCEPT
                        !.mismatch = mismatch,
                        !.old_conn = IF mismatch THEN ws_socket ELSE 0,
                        !.health_token = IF mismatch THEN auth_token ELSE 0,
                        !.done_before = TasksDone(active_games)]
          /\ IF ~reconnect
               THEN /\ disc_pc' = "member"
                    /\ UNCHANGED << ws_client_token, ws_running, ws_open >>
               ELSE IF auth_token = 0
                 THEN /\ disc_pc' = "ws_login"
                      /\ UNCHANGED << ws_client_token, ws_running, ws_open >>
                 ELSE BeginReconnect(auth_token)
    /\ UNCHANGED << active_games, user_id, chain_in_game, ws_socket,
                    ws_conn_token, websocket_task, last_ws_token_sent,
                    last_dispatch, gwVars >>

\* _authenticate inside the reconnect had to log in: the response arrives
DiscWsLogin ==
    /\ DiscFrame
    /\ disc_pc = "ws_login"
    /\ \/ /\ srv_issued < MaxTokens
          /\ \E r \in {0, 1} : refresh_token' = r
          /\ auth_token' = srv_issued + 1
          /\ srv_issued' = srv_issued + 1
          /\ BeginReconnect(srv_issued + 1)
          /\ UNCHANGED tick
       \/ \* login failed: the exception ends the tick (line 173)
          /\ disc_pc' = AfterTickError(disc_pc)
          /\ tick' = [tick EXCEPT !.raised = TRUE]
          /\ UNCHANGED << auth_token, refresh_token, srv_issued,
                          ws_client_token, ws_running, ws_open >>
    /\ UNCHANGED << active_games, user_id, chain_in_game, ws_socket,
                    ws_conn_token, websocket_task, last_ws_token_sent,
                    last_dispatch, gw >>

\* websocket_client.connect() answers
DiscConnect ==
    /\ DiscFrame
    /\ disc_pc = "connecting"
    /\ \/ \* connected and authenticated with the client's token; the listen
          \* task is created and the token is recorded
          /\ ws_socket < MaxConns
          /\ ws_socket' = ws_socket + 1
          /\ ws_open' = TRUE
          /\ ws_conn_token' = ws_client_token
          /\ websocket_task' = ws_socket + 1
          /\ ws_running' = TRUE
          /\ last_ws_token_sent' = auth_token
       \/ \* connect failed: a warning, nothing else
          UNCHANGED << ws_open, ws_conn_token, ws_socket, websocket_task,
                       ws_running, last_ws_token_sent >>
    /\ disc_pc' = "member"
    /\ UNCHANGED << active_games, user_id,
                    chain_in_game, ws_client_token, tick, last_dispatch,
                    gwVars >>

\* get_player_game_info, the branch on inGame, the clean-up of done tasks
\* (the records of the health check and of the last grant dispatch are
\* dropped from the history here)
DiscMember ==
    /\ DiscFrame
    /\ disc_pc = "member"
    /\ \/ \* playerGameInfo raises: the exception ends the tick
          /\ disc_pc' = AfterTickError(disc_pc)
          /\ tick' = [NewTick EXCEPT !.raised = TRUE,
                                      !.done_before = tick.done_before]
          /\ UNCHANGED active_games
       \/ IF SearchesForGames(chain_in_game, active_games)
            THEN /\ disc_pc' = "find"
                 /\ tick' = [NewTick EXCEPT !.in_game = chain_in_game,
                                             !.done_before = tick.done_before]
                 /\ UNCHANGED active_games
            ELSE LET ensured == IF chain_in_game # 0
                                  THEN EnsureTask(active_games, chain_in_game)
                                  ELSE active_games
                     after == CleanUp(ensured)
                 IN /\ active_games' = after
                    /\ tick' = [NewTick EXCEPT
                          !.in_game = chain_in_game,
                          !.task_before = IF chain_in_game # 0
                                            THEN active_games[chain_in_game]
                                            ELSE "none",
                          !.task_after = IF chain_in_game # 0
                                           THEN after[chain_in_game]
                                           ELSE "none",
                          !.done_before = tick.done_before]
                    /\ disc_pc' = "sleep"
    /\ last_dispatch' = NoDispatch
    /\ UNCHANGED << user_id, chain_in_game, ws_open, ws_conn_token,
                    ws_socket, ws_running, ws_client_token, websocket_task,
                    last_ws_token_sent, gwVars >>

\* _find_and_join_game: get_available_games starts with _get_user_info when
\* the user id is not known yet, else with the listing query
DiscFind ==
    /\ DiscFrame
    /\ disc_pc = "find"
    /\ gw' = [gw EXCEPT !["discovery"] = StartCall(TRUE)]
    /\ IF user_id = 0
         THEN /\ disc_pc' = "userinfo_call"
              /\ UNCHANGED tick
         ELSE /\ disc_pc' = "listing_call"
              /\ tick' = [tick EXCEPT !.listing_sent = TRUE]
    /\ UNCHANGED << active_games, user_id,
                    chain_in_game, ws_open, ws_conn_token, ws_socket, ws_running,
                    ws_client_token, websocket_task, last_ws_token_sent,
                    last_dispatch, auth_token, refresh_token, srv_issued >>

\* _get_user_info returns or raises
DiscUserInfoDone ==
    /\ DiscFrame
    /\ disc_pc = "userinfo_call"
    /\ gw["discovery"].pc = "done"
    /\ IF ~gw["discovery"].raised /\ gw["discovery"].result = 200
         THEN /\ user_id' = 1
              /\ gw' = [gw EXCEPT !["discovery"] = StartCall(TRUE)]
              /\ tick' = [tick EXCEPT !.listing_sent = TRUE]
              /\ disc_pc' = "listing_call"
              /\ UNCHANGED active_games
         ELSE \* the exception is caught in _find_and_join_game (line 258)
              /\ active_games' = CleanUp(active_games)
              /\ disc_pc' = "sleep"
              /\ gw' = [gw EXCEPT !["discovery"] = GwIdle]
              /\ UNCHANGED << user_id, tick >>
    /\ UNCHANGED << chain_in_game, ws_open, ws_conn_token, ws_socket,
                    ws_running, ws_client_token, websocket_task,
                    last_ws_token_sent, last_dispatch, auth_token,
                    refresh_token, srv_issued >>

\* the listing answers; the first listed contest with an id and a creator is
\* joined: PendingJoin is set and add-opponent is requested
DiscListingDone ==
    /\ DiscFrame
    /\ disc_pc = "listing_call"
    /\ gw["discovery"].pc = "done"
    /\ \/ \* no usable listing, an empty one, or a contest without creator_id
          /\ active_games' = CleanUp(active_games)
          /\ disc_pc' = "sleep"
          /\ gw' = [gw EXCEPT !["discovery"] = GwIdle]
          /\ UNCHANGED tick
       \/ /\ ~gw["discovery"].raised
          /\ gw["discovery"].result = 200
          /\ gw' = [gw EXCEPT !["discovery"] = StartCall(TRUE)]
          /\ tick' = [tick EXCEPT !.addopp_sent = TRUE]
          /\ disc_pc' = "addopp_call"
          /\ UNCHANGED active_games
    /\ UNCHANGED << user_id, chain_in_game, ws_open, ws_conn_token, ws_socket, ws_running,
                    ws_client_token, websocket_task, last_ws_token_sent,
                    last_dispatch, auth_token, refresh_token, srv_issued >>

\* add_opponent_to_fight returns; _join_game only logs the result
DiscAddOpponentDone ==
    /\ DiscFrame
    /\ disc_pc = "addopp_call"
    /\ gw["discovery"].pc = "done"
    /\ active_games' = CleanUp(active_games)
    /\ disc_pc' = "sleep"
    /\ gw' = [gw EXCEPT !["discovery"] = GwIdle]
    /\ UNCHANGED << user_id, chain_in_game, ws_open, ws_conn_token,
                    ws_socket, ws_running, ws_client_token, websocket_task,
                    last_ws_token_sent, tick, last_dispatch, auth_token,
                    refresh_token, srv_issued >>

\* asyncio.sleep(...) at the end of the tick, then `while self.running`
DiscSleep ==
    /\ DiscFrame
    /\ disc_pc = "sleep"
    /\ running
    /\ disc_pc' = "health"
    /\ tick' = NewTick
    /\ UNCHANGED << active_games, user_id,
                    chain_in_game, ws_open, ws_conn_token, ws_socket, ws_running,
                    ws_client_token, websocket_task, last_ws_token_sent,
                    last_dispatch, gwVars >>

\* the listen task receives a grant frame and dispatches it to
\* _handle_signature_ready
WsDispatchGrant ==
    /\ DiscFrame
    /\ WsConnected
    /\ ws_open
    /\ last_dispatch' = [seen |-> TRUE,
                         cached |-> auth_token # 0,
                         same_token |-> ws_conn_token = auth_token]
    /\ UNCHANGED << active_games, user_id,
                    chain_in_game, ws_open, ws_conn_token, ws_socket, ws_running,
                    ws_client_token, websocket_task, last_ws_token_sent,
                    disc_pc, tick, gwVars >>

\* the connection drops: the listen loop ends, `finally: running = False`
WsDrop ==
    /\ DiscFrame
    /\ WsConnected
    /\ ws_open
    /\ ws_open' = FALSE
    /\ ws_running' = FALSE
    /\ UNCHANGED << active_games, user_id,
                    chain_in_game, ws_socket, ws_conn_token, ws_client_token, websocket_task,
                    last_ws_token_sent, disc_pc, tick, last_dispatch, gwVars >>

\* a monitoring task terminates
TaskEnds ==
    /\ DiscFrame
    /\ \E id \in Contests :
          /\ active_games[id] = "running"
          /\ active_games' = [active_games EXCEPT ![id] = "done"]
    /\ UNCHANGED << user_id, chain_in_game, ws_open, ws_conn_token,
                    ws_socket, ws_running, ws_client_token, websocket_task,
                    last_ws_token_sent, disc_pc, tick, last_dispatch, gwVars >>

\* the ledger changes the bot's membership (join confirmed, contest over)
ChainMembership ==
    /\ DiscFrame
    /\ \E g \in (Contests \cup {0}) \ {chain_in_game} :
          /\ chain_in_game = 0 \/ g = 0
          /\ chain_in_game' = g
    /\ UNCHANGED << active_games, user_id, ws_open, ws_conn_token,
                    ws_socket, ws_running, ws_client_token, websocket_task,
                    last_ws_token_sent, disc_pc, tick, last_dispatch, gwVars >>

\* another task (a monitoring task, the grant handler) has a Gateway call
\* answered 401/403 and runs _refresh_access_token: a new access token is
\* cached, or the refresh is refused and the cached token is cleared
OtherTaskRefresh ==
    /\ DiscFrame
    /\ auth_token # 0
    /\ refresh_token # 0
    /\ \/ /\ srv_issued < MaxTokens
          /\ auth_token' = srv_issued + 1
          /\ srv_issued' = srv_issued + 1
       \/ /\ auth_token' = 0
          /\ UNCHANGED srv_issued
    /\ UNCHANGED << refresh_token, gw, discVars >>

\* the discovery task's Gateway calls are driven step by step
NextDisc ==
    \/ DiscHealth
    \/ DiscWsLogin
    \/ DiscConnect
    \/ DiscMember
    \/ DiscFind
    \/ DiscUserInfoDone
    \/ DiscListingDone
    \/ DiscAddOpponentDone
    \/ DiscSleep
    \/ WsDispatchGrant
    \/ WsDrop
    \/ TaskEnds
    \/ ChainMembership
    \/ OtherTaskRefresh
    \/ \E c \in Callers : GwLogin(c)
    \/ \E c \in Callers : GwResponse(c)
    \/ \E c \in Callers : GwRefreshResponse(c)
    \/ \E c \in Callers : GwRetryResponse(c)

---------------------------------------------------------------------------
(* Contest Orchestrator: announcing a join and the grant-ready handler     *)

JoinEvent(ev, id, sig, outcome) ==
    [ev |-> ev, id |-> id, sig |-> sig, outcome |-> outcome]

NoGrant == [id |-> 0, trading_fight_id |-> 0]

\* mutant: a frame without a signature is accepted
GrantUsable_NoSignatureCheck(signature, request) == request

\* `if not signature or not original_request: return` and
\* `if not all([game_id, player2, timestamp, ttl]): return`
GrantUsable(signature, request) == signature /\ request

\* `data.get("trading_fight_id") ... or self.pending_trading_fight_id`
FightUuid(payload, pending) == IF payload # 0 THEN payload ELSE pending

JoinFrame ==
    UNCHANGED << txVars, gwVars, gameVars, discVars, stopVars, subVars,
                 auxVars >>

InitJoin ==
    /\ pending_trading_fight_id = 0
    /\ join_pc = "idle"
    /\ grant = NoGrant
    /\ join_log = << >>

\* _join_game(game_id, game_data), called by the discovery task: without a
\* creator_id it returns; else it remembers the id and requests add-opponent
JoinAnnounce ==
    /\ JoinFrame
    /\ Len(join_log) < MaxJoinEvents
    /\ \E id \in Contests :
          \/ \* no creator_id in the listing entry
             /\ join_log' = Append(join_log,
                                   JoinEvent("announce", id, FALSE, "no_creator"))
             /\ UNCHANGED pending_trading_fight_id
          \/ \E result \in {"added", "refused", "raised"} :
                /\ pending_trading_fight_id' = id
                /\ join_log' = Append(join_log,
                                      JoinEvent("announce", id, FALSE, result))
    /\ UNCHANGED << join_pc, grant >>

\* a signature_ready frame is dispatched to _handle_signature_ready: the
\* field checks, then joinGame through build_sign_send_transaction (lines
\* 304-363, no await in between)
JoinGrantDispatch ==
    /\ JoinFrame
    /\ join_pc = "idle"
    /\ Len(join_log) + 1 < MaxJoinEvents
    /\ \E id \in Contests, signature \in BOOLEAN, request \in BOOLEAN,
          payload \in Contests \cup {0} :
          LET arrived == Append(join_log,
                                JoinEvent("grant", id, signature,
                                          IF request THEN "complete"
                                                     ELSE "incomplete"))
          IN IF ~GrantUsable(signature, request)
               THEN /\ join_log' = arrived
                    /\ UNCHANGED << join_pc, grant >>
               ELSE \/ \* int(game_id) or the signature decoding raises
                       /\ join_log' = arrived
                       /\ UNCHANGED << join_pc, grant >>
                    \/ \E o \in SubmitOutcomes :
                          /\ join_log' = Append(arrived,
                                 JoinEvent("joinGame", id, signature, o))
                          /\ IF Confirmed(o)
                               THEN /\ join_pc' = "notify"
                                    /\ grant' = [id |-> id,
                                                 trading_fight_id |-> payload]
                               ELSE UNCHANGED << join_pc, grant >>
    /\ UNCHANGED pending_trading_fight_id

\* after the confirmed join: notify_game_joined, then start-fight for the
\* frame's trading_fight_id or else the remembered id, then the remembered
\* id is cleared (lines 368-385)
JoinStartFight ==
    /\ JoinFrame
    /\ join_pc = "notify"
    /\ Len(join_log) < MaxJoinEvents
    /\ LET uuid == FightUuid(grant.trading_fight_id, pending_trading_fight_id)
       IN \/ \* notify_game_joined or _authenticate raises: caught at line 387
             /\ UNCHANGED << pending_trading_fight_id, join_log >>
          \/ /\ uuid # 0
             /\ \E result \in {"acknowledged", "refused"} :
                   join_log' = Append(join_log,
                                      JoinEvent("start_fight", uuid, FALSE,
                                                result))
             /\ pending_trading_fight_id' = 0
          \/ /\ uuid = 0
             /\ pending_trading_fight_id' = 0
             /\ UNCHANGED join_log
    /\ join_pc' = "idle"
    /\ grant' = NoGrant

NextJoin ==
    \/ JoinAnnounce
    \/ JoinGrantDispatch
    \/ JoinStartFight

---------------------------------------------------------------------------
(* Contest Orchestrator: start() and stop()                                *)

\* the order in which stop() is to perform its steps
StopOrder == << "cancel_tasks", "await_tasks", "cancel_listen",
                "close_channel", "release_gateway" >>

\* task.cancel(): a task that is not done is cancelled at its next await
CancelTask(state) == IF state = "running" THEN "cancelling" ELSE state

\* mutant: stop() does not wait for the cancelled tasks
AwaitsTasks_Never(active) == FALSE

\* `if self.active_games: await asyncio.gather(...)`
AwaitsTasks(active) == \E id \in Contests : active[id] # "none"

\* the phase of stop() in which an iteration runs
StopPhase ==
    IF \E i \in DOMAIN stop_log :
          stop_log[i] \in {"close_channel", "release_gateway"}
      THEN "after_close"
    ELSE IF stop_log # << >> THEN "after_cancel"
    ELSE "before_stop"

\* what stop() and the tasks it stops leave alone
StopFrame ==
    UNCHANGED << txVars, gwVars, joinVars, now, contract_state, game_end,
                 ledger_pos, db_last, game_pc, game_exit, current_position,
                 position_entry_price, position_open_time, iter,
                 forced_closes, held_in_window, user_id, chain_in_game,
                 ws_conn_token, ws_client_token, last_ws_token_sent, disc_pc,
                 tick, last_dispatch, subVars, auxVars >>

InitStop ==
    /\ session_open = FALSE
    /\ stop_pc = "new"
    /\ stop_log = << >>
    /\ last_iteration = "none"

\* start(): running = True, the Gateway session is opened, the push channel
\* is connected (or not), the discovery task is created
StopStartUp ==
    /\ StopFrame
    /\ stop_pc = "new"
    /\ running' = TRUE
    /\ session_open' = TRUE
    /\ \/ /\ ws_socket' = 1
          /\ ws_open' = TRUE
          /\ ws_running' = TRUE
          /\ websocket_task' = 1
       \/ UNCHANGED << ws_socket, ws_open, ws_running, websocket_task >>
    /\ stop_pc' = "running"
    /\ UNCHANGED << active_games, stop_log, last_iteration >>

\* the discovery task creates a monitoring task (line 161); a tick that is
\* under way when stop() is called can still do so
StopTaskCreate ==
    /\ StopFrame
    /\ stop_pc # "new"
    /\ \E id \in Contests :
          /\ active_games[id] = "none"
          /\ active_games' = [active_games EXCEPT ![id] = "running"]
    /\ UNCHANGED << running, ws_socket, ws_open, ws_running, websocket_task,
                    stopVars >>

\* `while self.running:` holds and a monitoring task runs an iteration
StopTaskIterate ==
    /\ StopFrame
    /\ running
    /\ \E id \in Contests : active_games[id] = "running"
    /\ last_iteration' = StopPhase
    /\ UNCHANGED << running, active_games, ws_socket, ws_open, ws_running,
                    websocket_task, session_open, stop_pc, stop_log >>

\* a monitoring task ends: its loop is over, or `while self.running` fails,
\* or the cancellation requested by stop() is delivered at its await
StopTaskEnds ==
    /\ StopFrame
    /\ \E id \in Contests :
          /\ active_games[id] \in {"running", "cancelling"}
          /\ active_games' = [active_games EXCEPT ![id] = "done"]
    /\ UNCHANGED << running, ws_socket, ws_open, ws_running, websocket_task,
                    stopVars >>

\* stop(), lines 108-113: running = False, every registered task is
\* cancelled; then the gather, unless no task is registered
StopBegin ==
    /\ StopFrame
    /\ stop_pc = "running"
    /\ running' = FALSE
    /\ active_games' = [id \in Contests |-> CancelTask(active_games[id])]
    /\ stop_log' = << "cancel_tasks" >>
    /\ stop_pc' = IF AwaitsTasks(active_games) THEN "gather" ELSE "listen"
    /\ UNCHANGED << ws_socket, ws_open, ws_running, websocket_task,
                    session_open, last_iteration >>

\* asyncio.gather(..., return_exceptions=True) returns: every task that was
\* cancelled has ended
StopGathered ==
    /\ StopFrame
    /\ stop_pc = "gather"
    /\ \A id \in Contests : active_games[id] # "cancelling"
    /\ stop_log' = Append(stop_log, "await_tasks")
    /\ stop_pc' = "listen"
    /\ UNCHANGED << running, active_games, ws_socket, ws_open, ws_running,
                    websocket_task, session_open, last_iteration >>

\* `self.websocket_task.cancel()`: with no listen task ever created the
\* attribute is None and the call raises out of stop()
StopCancelListen ==
    /\ StopFrame
    /\ stop_pc = "listen"
    /\ IF websocket_task = 0
         THEN /\ stop_pc' = "raised"
              /\ UNCHANGED << ws_running, stop_log >>
         ELSE /\ ws_running' = FALSE
              /\ stop_log' = Append(stop_log, "cancel_listen")
              /\ stop_pc' = "closing"
    /\ UNCHANGED << running, active_games, ws_socket, ws_open, websocket_task,
                    session_open, last_iteration >>

\* `await self.websocket_client.disconnect()`
StopCloseChannel ==
    /\ StopFrame
    /\ stop_pc = "closing"
    /\ ws_open' = FALSE
    /\ stop_log' = Append(stop_log, "close_channel")
    /\ stop_pc' = "release"
    /\ UNCHANGED << running, active_games, ws_socket, ws_running,
                    websocket_task, session_open, last_iteration >>

\* `await self.backend_client.__aexit__(None, None, None)`
StopRelease ==
    /\ StopFrame
    /\ stop_pc = "release"
    /\ session_open' = FALSE
    /\ stop_log' = Append(stop_log, "release_gateway")
    /\ stop_pc' = "done"
    /\ UNCHANGED << running, active_games, ws_socket, ws_open, ws_running,
                    websocket_task, last_iteration >>

NextStop ==
    \/ StopStartUp
    \/ StopTaskCreate
    \/ StopTaskIterate
    \/ StopTaskEnds
    \/ StopBegin
    \/ StopGathered
    \/ StopCancelListen
    \/ StopCloseChannel
    \/ StopRelease

---------------------------------------------------------------------------
(* Contest Orchestrator: the threads that submit to the ledger             *)
(*                                                                         *)
(* build_sign_send_transaction is a blocking call.  joinGame (line 358),   *)
(* postPosition (line 671) and closePosition (line 723) call it directly   *)
(* from a coroutine, so the event-loop thread executes it and runs nothing *)
(* else until it returns.  finishGame (line 767) hands it to the default   *)
(* executor and awaits the result, which leaves the event loop free.       *)

NoSubmission == [fn |-> "none", id |-> 0]

LoopFree == loop_submission = NoSubmission

\* a monitoring task that can run its next step on the event loop
TaskReady(id) ==
    /\ LoopFree
    /\ active_games[id] = "running"
    /\ finish_call[id] = "none"

\* the bookkeeping of one discovery tick, lines 155-171: a task for the
\* contest the ledger reports, unless one is registered; then the tasks
\* that are done are removed
AfterTick(active, game_id) ==
    [id \in Contests |->
        IF id = game_id /\ active[id] = "none" THEN "running"
        ELSE IF active[id] = "done" THEN "none"
        ELSE active[id]]

SubFrame ==
    UNCHANGED << txVars, gwVars, joinVars, stopVars, discRest, now,
                 contract_state, game_end, ledger_pos, db_last, running,
                 game_pc, game_exit, current_position, position_entry_price,
                 position_open_time, iter, forced_closes, held_in_window,
                 auxVars >>

InitSub ==
    /\ loop_submission = NoSubmission
    /\ finish_call = [id \in Contests |-> "none"]
    /\ submitted = {}

\* one tick of _monitor_games; game_id = 0 is "not in a contest"
SubDiscoveryTick ==
    /\ SubFrame
    /\ LoopFree
    /\ \E game_id \in Contests \cup {0} :
          active_games' = AfterTick(active_games, game_id)
    /\ UNCHANGED subVars

\* _execute_decision or the auto-close: the task calls
\* build_sign_send_transaction on the event loop
SubPositionBegin ==
    /\ SubFrame
    /\ \E id \in Contests, fn \in {"postPosition", "closePosition"} :
          /\ TaskReady(id)
          /\ loop_submission' = [fn |-> fn, id |-> id]
          /\ submitted' = submitted \cup {[fn |-> fn, id |-> id]}
    /\ UNCHANGED << active_games, finish_call >>

\* _handle_signature_ready: the listen task calls
\* build_sign_send_transaction for the contest the frame names
SubGrantBegin ==
    /\ SubFrame
    /\ LoopFree
    /\ \E id \in Contests :
          /\ loop_submission' = [fn |-> "joinGame", id |-> id]
          /\ submitted' = submitted \cup {[fn |-> "joinGame", id |-> id]}
    /\ UNCHANGED << active_games, finish_call >>

\* the blocking call on the event loop returns
SubLoopEnd ==
    /\ SubFrame
    /\ ~LoopFree
    /\ loop_submission' = NoSubmission
    /\ UNCHANGED << active_games, finish_call, submitted >>

\* _finish_game, line 767: the submission goes to the executor thread and
\* the task is suspended
SubFinishBegin ==
    /\ SubFrame
    /\ \E id \in Contests :
          /\ TaskReady(id)
          /\ finish_call' = [finish_call EXCEPT ![id] = "in_thread"]
          /\ submitted' = submitted \cup {[fn |-> "finishGame", id |-> id]}
    /\ UNCHANGED << active_games, loop_submission >>

\* the executor thread's build_sign_send_transaction returns or raises
SubExecutorEnd ==
    /\ SubFrame
    /\ \E id \in Contests :
          /\ finish_call[id] = "in_thread"
          /\ finish_call' = [finish_call EXCEPT ![id] = "returned"]
    /\ UNCHANGED << active_games, loop_submission, submitted >>

\* the event loop resumes the task after the executor call; the loop of
\* the contest breaks and the task is done
SubFinishResume ==
    /\ SubFrame
    /\ LoopFree
    /\ \E id \in Contests :
          /\ finish_call[id] = "returned"
          /\ finish_call' = [finish_call EXCEPT ![id] = "none"]
          /\ active_games' = [active_games EXCEPT ![id] = "done"]
    /\ UNCHANGED << loop_submission, submitted >>

NextSub ==
    \/ SubDiscoveryTick
    \/ SubPositionBegin
    \/ SubGrantBegin
    \/ SubLoopEnd
    \/ SubFinishBegin
    \/ SubExecutorEnd
    \/ SubFinishResume

---------------------------------------------------------------------------
(* Push Channel Client: listen tasks, connections and reconnects           *)

ListenTask(conn, st, cancel) == [conn |-> conn, st |-> st, cancel |-> cancel]

\* a task that can still receive a frame: not ended, no cancellation pending
Consuming(task) == task.st # "ended" /\ ~task.cancel

\* mutant: the reconnect leaves the previous listen task alone
CancelPrevious_Never(tasks, id) == tasks

\* `if getattr(self, "websocket_task", None): self.websocket_task.cancel()`;
\* cancel() on a task that is done changes nothing
CancelPrevious(tasks, id) ==
    IF id # 0 /\ tasks[id].st # "ended"
      THEN [tasks EXCEPT ![id].cancel = TRUE]
      ELSE tasks

ListenFrame ==
    UNCHANGED << txVars, gwVars, gameVars, joinVars, stopVars, subVars,
                 frameVars, openVars, feeVars,
                 active_games, user_id, chain_in_game, ws_open,
                 ws_conn_token, ws_client_token, last_ws_token_sent, disc_pc,
                 tick, last_dispatch >>

InitListen ==
    /\ listen_tasks = << >>
    /\ open_conns = {}
    /\ frames_sent = [k \in 1..MaxConns |-> 0]
    /\ frames_rcvd = [k \in 1..MaxConns |-> 0]
    /\ listen_pc = "idle"
    /\ dispatched = {}
    /\ duplicate_dispatch = FALSE

\* start(), or the health check of a discovery tick that found the channel
\* not connected or the token changed, enters
\* _connect_websocket_with_current_token: the previous task is cancelled,
\* then disconnect() is awaited.  Every await on the way here since the last
\* create_task let that task run its first step.
ListenReconnectBegin(token_changed) ==
    /\ ListenFrame
    /\ listen_pc = "idle"
    /\ ~WsConnected \/ token_changed
    /\ \A i \in DOMAIN listen_tasks :
          listen_tasks[i].st = "created" => listen_tasks[i].cancel
    /\ listen_tasks' = CancelPrevious(listen_tasks, websocket_task)
    /\ listen_pc' = "closing"
    /\ UNCHANGED << ws_socket, ws_running, websocket_task, open_conns,
                    frames_sent, frames_rcvd, dispatched, duplicate_dispatch >>

\* disconnect(): `if self.websocket: await self.websocket.close()`
ListenDisconnect ==
    /\ ListenFrame
    /\ listen_pc = "closing"
    /\ open_conns' = open_conns \ {ws_socket}
    /\ listen_pc' = "connecting"
    /\ UNCHANGED << ws_socket, ws_running, websocket_task, listen_tasks,
                    frames_sent, frames_rcvd, dispatched, duplicate_dispatch >>

\* connect() returns False: websockets.connect raised and self.websocket
\* keeps the old object, or the connection was made and sending the token
\* raised
ListenConnectFails ==
    /\ ListenFrame
    /\ listen_pc = "connecting"
    /\ \/ UNCHANGED << ws_socket, open_conns >>
       \/ /\ ws_socket < MaxConns
          /\ ws_socket' = ws_socket + 1
          /\ open_conns' = open_conns \cup {ws_socket + 1}
    /\ listen_pc' = "idle"
    /\ UNCHANGED << ws_running, websocket_task, listen_tasks, frames_sent,
                    frames_rcvd, dispatched, duplicate_dispatch >>

\* connect() returns True: the listen task is created
ListenConnectOk ==
    /\ ListenFrame
    /\ listen_pc = "connecting"
    /\ ws_socket < MaxConns
    /\ ws_socket' = ws_socket + 1
    /\ open_conns' = open_conns \cup {ws_socket + 1}
    /\ listen_tasks' = Append(listen_tasks, ListenTask(0, "created", FALSE))
    /\ websocket_task' = Len(listen_tasks) + 1
    /\ listen_pc' = "idle"
    /\ UNCHANGED << ws_running, frames_sent, frames_rcvd, dispatched,
                    duplicate_dispatch >>

\* the first step of listen(): `if not self.websocket: return`, then
\* running = True and the iteration over self.websocket begins
ListenTaskStart ==
    /\ ListenFrame
    /\ \E i \in DOMAIN listen_tasks :
          /\ listen_tasks[i].st = "created"
          /\ ~listen_tasks[i].cancel
          /\ IF ws_socket = 0
               THEN /\ listen_tasks' = [listen_tasks EXCEPT ![i].st = "ended"]
                    /\ UNCHANGED ws_running
               ELSE /\ listen_tasks' =
                          [listen_tasks EXCEPT ![i].st = "receiving",
                                               ![i].conn = ws_socket]
                    /\ ws_running' = TRUE
    /\ UNCHANGED << ws_socket, websocket_task, open_conns, frames_sent,
                    frames_rcvd, listen_pc, dispatched, duplicate_dispatch >>

\* `async for message in self.websocket` yields the next frame and
\* _handle_message is awaited
ListenTaskReceive ==
    /\ ListenFrame
    /\ \E i \in DOMAIN listen_tasks :
          LET task == listen_tasks[i]
              frame == << task.conn, frames_rcvd[task.conn] + 1 >> IN
          /\ task.st = "receiving"
          /\ ~task.cancel
          /\ frames_rcvd[task.conn] < frames_sent[task.conn]
          /\ frames_rcvd' = [frames_rcvd EXCEPT ![task.conn] = @ + 1]
          /\ dispatched' = dispatched \cup {frame}
          /\ duplicate_dispatch' =
                (duplicate_dispatch \/ frame \in dispatched)
          /\ listen_tasks' = [listen_tasks EXCEPT ![i].st = "handling"]
    /\ UNCHANGED << ws_socket, ws_running, websocket_task, open_conns,
                    frames_sent, listen_pc >>

\* the handler returns and the task waits for the next frame
ListenTaskHandled ==
    /\ ListenFrame
    /\ \E i \in DOMAIN listen_tasks :
          /\ listen_tasks[i].st = "handling"
          /\ ~listen_tasks[i].cancel
          /\ listen_tasks' = [listen_tasks EXCEPT ![i].st = "receiving"]
    /\ UNCHANGED << ws_socket, ws_running, websocket_task, open_conns,
                    frames_sent, frames_rcvd, listen_pc, dispatched,
                    duplicate_dispatch >>

\* the cancellation is delivered at the task's await: CancelledError passes
\* the handlers of `Exception`, `finally` sets running = False.  A task
\* cancelled before its first step never enters the `try`.
ListenTaskCancelled ==
    /\ ListenFrame
    /\ \E i \in DOMAIN listen_tasks :
          /\ listen_tasks[i].st # "ended"
          /\ listen_tasks[i].cancel
          /\ listen_tasks' = [listen_tasks EXCEPT ![i].st = "ended"]
          /\ IF listen_tasks[i].st = "created"
               THEN UNCHANGED ws_running
               ELSE ws_running' = FALSE
    /\ UNCHANGED << ws_socket, websocket_task, open_conns, frames_sent,
                    frames_rcvd, listen_pc, dispatched, duplicate_dispatch >>

\* the iteration finds the connection closed: ConnectionClosed, `finally`
ListenTaskClosed ==
    /\ ListenFrame
    /\ \E i \in DOMAIN listen_tasks :
          /\ listen_tasks[i].st = "receiving"
          /\ ~listen_tasks[i].cancel
          /\ listen_tasks[i].conn \notin open_conns
          /\ listen_tasks' = [listen_tasks EXCEPT ![i].st = "ended"]
    /\ ws_running' = FALSE
    /\ UNCHANGED << ws_socket, websocket_task, open_conns, frames_sent,
                    frames_rcvd, listen_pc, dispatched, duplicate_dispatch >>

\* the server sends a frame on an open connection
ListenServerSend ==
    /\ ListenFrame
    /\ \E k \in open_conns :
          /\ frames_sent[k] < MaxConnFrames
          /\ frames_sent' = [frames_sent EXCEPT ![k] = @ + 1]
    /\ UNCHANGED << ws_socket, ws_running, websocket_task, listen_tasks,
                    open_conns, frames_rcvd, listen_pc, dispatched,
                    duplicate_dispatch >>

\* the server or the network closes a connection
ListenServerClose ==
    /\ ListenFrame
    /\ \E k \in open_conns : open_conns' = open_conns \ {k}
    /\ UNCHANGED << ws_socket, ws_running, websocket_task, listen_tasks,
                    frames_sent, frames_rcvd, listen_pc, dispatched,
                    duplicate_dispatch >>

NextListen ==
    \/ \E token_changed \in BOOLEAN : ListenReconnectBegin(token_changed)
    \/ ListenDisconnect
    \/ ListenConnectFails
    \/ ListenConnectOk
    \/ ListenTaskStart
    \/ ListenTaskReceive
    \/ ListenTaskHandled
    \/ ListenTaskCancelled
    \/ ListenTaskClosed
    \/ ListenServerSend
    \/ ListenServerClose

---------------------------------------------------------------------------
(* Push Channel Client: decoding and dispatch of one frame                 *)

\* the "type" member of an envelope: no such key, a falsy value, or a name
TypeValues == {"absent", "empty", "signature_ready", "game_joined",
               "unknown"}

\* the "signature" member: no such key, a falsy value, or a hex string
SignatureValues == {"absent", "empty", "value"}

\* the "original_request" member: no such key, a falsy value, an object
\* lacking one of game_id, player2, timestamp, ttl, or an object with all four
RequestValues == {"absent", "empty", "incomplete", "complete"}

\* a frame: whether json.loads accepts it, whether the value is an object,
\* and the members the code looks at
Frames == [json : BOOLEAN, object : BOOLEAN, type : TypeValues,
           signature : SignatureValues, original_request : RequestValues]

\* `not message_type`
NoType(frame) == frame.type \in {"absent", "empty"}

\* mutant: an envelope without type is never taken for a grant
MessageType_NoSniffing(frame) ==
    IF NoType(frame) THEN "none" ELSE frame.type

\* lines 80-90: the type the envelope is dispatched under; "none" is the
\* early return of line 88
MessageType(frame) ==
    IF NoType(frame) /\ frame.signature # "absent"
                     /\ frame.original_request # "absent"
      THEN "signature_ready"
    ELSE IF NoType(frame) THEN "none"
    ELSE frame.type

\* listen, lines 63-68, and _handle_message: the handlers awaited for a frame.
\* json.loads raising, or data.get raising on a value that is not an object,
\* is caught before any handler is reached.
HandlersCalled(frame, handlers) ==
    IF ~frame.json \/ ~frame.object THEN << >>
    ELSE IF MessageType(frame) \in handlers THEN << MessageType(frame) >>
    ELSE << >>

\* _handle_signature_ready, lines 311-323: the two early returns
GrantComplete(frame) ==
    frame.signature = "value" /\ frame.original_request = "complete"

\* what the handlers do beyond logging: _handle_signature_ready submits
\* joinGame for a complete grant and, when that is confirmed, calls the
\* Gateway's start-fight; _handle_game_joined only logs
HandlerEffects(calls, frame) ==
    IF calls = << "signature_ready" >> /\ GrantComplete(frame)
      THEN { {"joinGame"}, {"joinGame", "start_fight"} }
      ELSE { {} }

\* mutant: a frame that json.loads rejects ends the listen loop
EscapesListen_DecodeError(frame) == ~frame.json

\* an exception raised while one frame is processed leaves the `async for`
\* only if neither line 65/67 nor line 100 catches it: none does
EscapesListen(frame) == FALSE

FramesFrame ==
    UNCHANGED << txVars, gwVars, gameVars, discVars, joinVars, stopVars,
                 subVars, listenVars, openVars, feeVars >>

InitFrames ==
    /\ message_handlers = {}
    /\ message_count = 0
    /\ frame_loop = "new"
    /\ last_frame = << >>
    /\ handler_calls = << >>
    /\ frame_effects = {}

\* _connect_websocket_with_current_token, lines 199-204: both handlers are
\* registered, then the listen task is created
FramesListenStart ==
    /\ FramesFrame
    /\ frame_loop = "new"
    /\ message_handlers' = {"signature_ready", "game_joined"}
    /\ frame_loop' = "receiving"
    /\ UNCHANGED << message_count, last_frame, handler_calls, frame_effects >>

\* one turn of `async for message in self.websocket`
FrameArrives ==
    /\ FramesFrame
    /\ frame_loop = "receiving"
    /\ message_count < MaxFrames
    /\ \E frame \in Frames :
          LET calls == HandlersCalled(frame, message_handlers) IN
          /\ last_frame' = << frame >>
          /\ handler_calls' = calls
          /\ \E effects \in HandlerEffects(calls, frame) :
                frame_effects' = effects
          /\ message_count' = IF frame.json THEN message_count + 1
                                              ELSE message_count
          /\ frame_loop' = IF EscapesListen(frame) THEN "exception"
                                                   ELSE "receiving"
    /\ UNCHANGED message_handlers

\* the connection is closed: ConnectionClosed ends the iteration
FramesConnectionClosed ==
    /\ FramesFrame
    /\ frame_loop = "receiving"
    /\ frame_loop' = "closed"
    /\ UNCHANGED << message_handlers, message_count, last_frame,
                    handler_calls, frame_effects >>

NextFrames ==
    \/ FramesListenStart
    \/ FrameArrives
    \/ FramesConnectionClosed

---------------------------------------------------------------------------
(* Contest Orchestrator: the open branch of _execute_decision, step by     *)
(* step: grant request, postPosition, record                                *)

\* int(Direction.Long) = 0, int(Direction.Short) = 1 (blockchain/game.py)
DirectionInt(direction) == IF direction = "Long" THEN 0 ELSE 1

\* "nonce": str(nonce): the decimal string of the nonce
NonceStr(nonce) == << "str", nonce >>

\* what the sign-position endpoint can answer: status 200 with a JSON object
\* or not; the backend_signature key absent, empty, a hex string or some
\* other string; signed_message absent (or null), not an object, an object
\* without hashedDirection, or an object with it
GrantResponses ==
    [ok : BOOLEAN,
     sig : {"absent", "empty", "hex", "nothex"},
     signed_message : {"absent", "nodict", "nohash", "hash"}]

\* `status == 200 and isinstance(result, dict) and "backend_signature" in
\* result`: get_post_position_signature returns the result, else None
ClientReturnsGrant(response) == response.ok /\ response.sig # "absent"

\* `signed_message.get("hashedDirection")` raises on a value that is no dict
SignedMessageRaises(response) == response.signed_message = "nodict"

\* mutant: the signature of the grant is not looked at
HasSignature_Unchecked(response) == TRUE

\* `if not backend_signature_hex: return`
HasSignature(response) == response.sig \notin {"absent", "empty"}

\* bytes.fromhex(...) raises ValueError on a string that is not hex
FromHexRaises(response) == response.sig = "nothex"

\* the hashed direction handed to postPosition: the service's, or the local
\* keccak(abi.encode(uint256 game_id, uint8 direction, uint256 nonce))
HashedDirection(response, game_id, direction, nonce) ==
    IF response.signed_message = "hash"
      THEN << "service" >>
      ELSE << "keccak", game_id, DirectionInt(direction), nonce >>

NoOpenCall == [game_id |-> 0, action |-> "hold", position |-> NoPosition,
               direction |-> "Long", nonce |-> 0]

OpenFrame ==
    UNCHANGED << txVars, gwVars, gameVars, discVars, joinVars, stopVars,
                 subVars, listenVars, frameVars, feeVars >>

InitOpen ==
    /\ open_pc = "idle"
    /\ open_call = NoOpenCall
    /\ open_request = << >>
    /\ open_grant = << >>
    /\ open_tx = << >>
    /\ open_recorded = << >>
    /\ open_db = << >>
    /\ open_return = "none"

\* _execute_decision is called; `action in [open_long, open_short] and not
\* current_position`: direction and nonce are chosen and the grant request
\* is sent (when _authenticate does not raise); any other call takes
\* another branch
OpenCall ==
    /\ OpenFrame
    /\ open_pc \in {"idle", "done"}
    /\ \E id \in Contests, action \in Actions,
          position \in {NoPosition, "long", "short"},
          n \in 1..MaxPositionNonce :
         LET direction == IF action = "open_long" THEN "Long" ELSE "Short"
             opens == action \in {"open_long", "open_short"}
                        /\ position = NoPosition
         IN /\ open_call' = [game_id |-> id, action |-> action,
                             position |-> position,
                             direction |-> direction,
                             nonce |-> IF opens THEN n ELSE 0]
            /\ IF ~opens
                 THEN /\ n = 1
                      /\ open_pc' = "other_branch"
                      /\ open_request' = << >>
                      /\ open_return' = "none"
                 ELSE \/ /\ open_pc' = "grant"
                         /\ open_request' =
                               << [gameId |-> id,
                                   direction |-> DirectionInt(direction),
                                   nonce |-> NonceStr(n)] >>
                         /\ open_return' = "none"
                      \/ \* _authenticate raises before the request: the
                         \* exception reaches `except Exception: return False`
                         /\ open_pc' = "done"
                         /\ open_request' = << >>
                         /\ open_return' = "False"
    /\ open_grant' = << >>
    /\ open_tx' = << >>
    /\ open_recorded' = << >>
    /\ UNCHANGED open_db

\* the close and the no-action branches are modelled by ExecuteDecision
OpenOtherBranch ==
    /\ OpenFrame
    /\ open_pc = "other_branch"
    /\ open_pc' = "done"
    /\ open_return' = "False"
    /\ UNCHANGED << open_call, open_request, open_grant, open_tx,
                    open_recorded, open_db >>

\* the Gateway answers the sign-position request (or the request raises,
\* which the client turns into None); lines 627-645 up to postPosition
OpenGrantAnswer ==
    /\ OpenFrame
    /\ open_pc = "grant"
    /\ \/ \* _request_with_retry raised: `return None`, then bare `return`
          /\ open_grant' = << >>
          /\ open_pc' = "done"
          /\ open_return' = "None"
       \/ \E response \in GrantResponses :
             /\ open_grant' = << response >>
             /\ IF ~ClientReturnsGrant(response)
                  THEN open_pc' = "done" /\ open_return' = "None"
                ELSE IF SignedMessageRaises(response)
                  THEN open_pc' = "done" /\ open_return' = "False"
                ELSE IF ~HasSignature(response)
                  THEN open_pc' = "done" /\ open_return' = "None"
                ELSE IF FromHexRaises(response)
                  THEN open_pc' = "done" /\ open_return' = "False"
                ELSE open_pc' = "submit" /\ UNCHANGED open_return
    /\ UNCHANGED << open_call, open_request, open_tx, open_recorded,
                    open_db >>

\* build_sign_send_transaction(postPosition(game_id, hashed, signature))
\* returns a success receipt or raises
OpenSubmit ==
    /\ OpenFrame
    /\ open_pc = "submit"
    /\ \E o \in SubmitOutcomes :
          /\ open_tx' = << [fn |-> "postPosition",
                            game_id |-> open_call.game_id,
                            hashed |-> HashedDirection(open_grant[1],
                                          open_call.game_id,
                                          open_call.direction,
                                          open_call.nonce),
                            signature |-> open_grant[1].sig,
                            outcome |-> o] >>
          /\ IF Confirmed(o)
               THEN open_pc' = "record" /\ UNCHANGED open_return
               ELSE open_pc' = "done" /\ open_return' = "False"
    /\ UNCHANGED << open_call, open_request, open_grant, open_recorded,
                    open_db >>

\* self.db.record_position(position_record), then `return True`; when the
\* store raises, `return False`
OpenRecord ==
    /\ OpenFrame
    /\ open_pc = "record"
    /\ \/ LET record == [game_id |-> open_call.game_id,
                         direction |-> open_call.direction,
                         nonce |-> open_call.nonce]
          IN /\ open_recorded' = << record >>
             /\ open_db' = << record >>
             /\ open_return' = "True"
       \/ /\ open_return' = "False"
          /\ UNCHANGED << open_recorded, open_db >>
    /\ open_pc' = "done"
    /\ UNCHANGED << open_call, open_request, open_grant, open_tx >>

NextOpen ==
    \/ OpenCall
    \/ OpenOtherBranch
    \/ OpenGrantAnswer
    \/ OpenSubmit
    \/ OpenRecord

---------------------------------------------------------------------------
(* Ledger Transaction Submitter: the fee fields of every attempt           *)
(* (fees are counted in gwei; int(x * 1.15) is taken on exact integers,    *)
(* the rounding of the floating-point product is not modelled)             *)

FeeLevels == {10, MaxFee}

\* a transaction's fee fields; 0 stands for a field that is absent
Fees(gas_price, max_fee, max_priority_fee) ==
    [gasPrice |-> gas_price, maxFeePerGas |-> max_fee,
     maxPriorityFeePerGas |-> max_priority_fee]

NoFees == Fees(0, 0, 0)

\* int(value * fee_bump_factor)
BumpedFee(value) == (value * BumpPercent) \div 100

\* `if 'gasPrice' not in tx and 'maxFeePerGas' not in tx`
NeedsDefaultFees(tx) == tx.gasPrice = 0 /\ tx.maxFeePerGas = 0

\* the first half of _apply_default_fees: EIP-1559 fields from the latest
\* block, or gasPrice from the node when the block cannot be read
DefaultFees(tx, base_fee, block_ok, gas_price) ==
    IF ~NeedsDefaultFees(tx) THEN tx
    ELSE IF block_ok
      THEN Fees(0, base_fee * 2 + PriorityTip, PriorityTip)
    ELSE Fees(gas_price, 0, tx.maxPriorityFeePerGas)

\* the second half: "On retries, bump whichever pricing scheme is present"
BumpFees(tx, attempt_index) ==
    IF attempt_index > 0
      THEN IF tx.maxFeePerGas # 0 /\ tx.maxPriorityFeePerGas # 0
             THEN Fees(tx.gasPrice, BumpedFee(tx.maxFeePerGas),
                       BumpedFee(tx.maxPriorityFeePerGas))
           ELSE IF tx.gasPrice # 0
             THEN Fees(BumpedFee(tx.gasPrice), tx.maxFeePerGas,
                       tx.maxPriorityFeePerGas)
           ELSE tx
      ELSE tx

FeesFrame ==
    UNCHANGED << txVars, gwVars, gameVars, discVars, joinVars, stopVars,
                 subVars, listenVars, frameVars, openVars >>

InitFees ==
    /\ fee_pc = "idle"
    /\ fee_params = NoFees
    /\ fee_retries = 0
    /\ fee_attempt = 0
    /\ fee_base = 10
    /\ fee_offers = << >>

\* the call: tx_params with any of the three fee fields, `retries`
FeeCall ==
    /\ FeesFrame
    /\ fee_pc \in {"idle", "done"}
    /\ \E gp, mf, mp \in {0} \cup FeeLevels, r \in 0..MaxRetries :
          /\ fee_params' = Fees(gp, mf, mp)
          /\ fee_retries' = r
    /\ fee_attempt' = 0
    /\ fee_offers' = << >>
    /\ fee_pc' = "build"
    /\ UNCHANGED fee_base

\* one attempt up to the broadcast: the skeleton is built from tx_params
\* again, None values are removed, _apply_default_fees(transaction, attempt)
FeeAttempt ==
    /\ FeesFrame
    /\ fee_pc = "build"
    /\ \E block_ok \in BOOLEAN, gas_price \in FeeLevels :
          LET unbumped == DefaultFees(fee_params, fee_base, block_ok,
                                      gas_price)
          IN fee_offers' = Append(fee_offers,
                 [attempt |-> fee_attempt,
                  base |-> fee_base,
                  defaults |-> IF ~NeedsDefaultFees(fee_params) THEN "none"
                               ELSE IF block_ok THEN "eip1559"
                               ELSE "legacy",
                  node_price |-> IF NeedsDefaultFees(fee_params) /\ ~block_ok
                                   THEN gas_price ELSE 0,
                  unbumped |-> unbumped,
                  offered |-> BumpFees(unbumped, fee_attempt)])
    /\ fee_pc' = "sent"
    /\ UNCHANGED << fee_params, fee_retries, fee_attempt, fee_base >>

\* the broadcast was refused with a retryable message and attempts are
\* left: `continue`
FeeRetry ==
    /\ FeesFrame
    /\ fee_pc = "sent"
    /\ fee_attempt < fee_retries
    /\ fee_attempt' = fee_attempt + 1
    /\ fee_pc' = "build"
    /\ UNCHANGED << fee_params, fee_retries, fee_base, fee_offers >>

\* the call returns or raises
FeeEnd ==
    /\ FeesFrame
    /\ fee_pc = "sent"
    /\ fee_pc' = "done"
    /\ UNCHANGED << fee_params, fee_retries, fee_attempt, fee_base,
                    fee_offers >>

\* a new block changes the base fee
FeeNewBlock ==
    /\ FeesFrame
    /\ fee_pc \in {"build", "sent"}
    /\ \E b \in FeeLevels \ {fee_base} : fee_base' = b
    /\ UNCHANGED << fee_pc, fee_params, fee_retries, fee_attempt,
                    fee_offers >>

NextFees ==
    \/ FeeCall
    \/ FeeAttempt
    \/ FeeRetry
    \/ FeeEnd
    \/ FeeNewBlock

---------------------------------------------------------------------------
Init ==
    /\ InitTx /\ InitGw /\ InitGame /\ InitDisc /\ InitJoin /\ InitStop
    /\ InitSub /\ InitListen /\ InitFrames /\ InitOpen
    /\ InitFees

SpecTx == Init /\ [][NextTx]_vars

\* the event loop and the blocking ledger calls always make progress:
\* every ledger call answers or times out
SpecTxFair == Init /\ [][NextTx]_vars /\ WF_vars(NextTx)

SpecGw == Init /\ [][NextGw]_vars

SpecGame == Init /\ [][NextGame]_vars

SpecDisc == Init /\ [][NextDisc]_vars

SpecJoin == Init /\ [][NextJoin]_vars

SpecStop == Init /\ [][NextStop]_vars

SpecSub == Init /\ [][NextSub]_vars

SpecListen == Init /\ [][NextListen]_vars

\* the discovery loop keeps ticking, awaited calls return, created and
\* cancelled tasks get their turn on the event loop, and of the connection
\* attempts made again and again one eventually succeeds
SpecListenFair ==
    /\ SpecListen
    /\ WF_vars(ListenReconnectBegin(FALSE))
    /\ WF_vars(ListenDisconnect)
    /\ WF_vars(ListenConnectFails \/ ListenConnectOk)
    /\ SF_vars(ListenConnectOk)
    /\ WF_vars(ListenTaskStart)

SpecFrames == Init /\ [][NextFrames]_vars

SpecOpen == Init /\ [][NextOpen]_vars

SpecFees == Init /\ [][NextFees]_vars

---------------------------------------------------------------------------
(* Properties of build_sign_send_transaction *)

TxDone == tx_pc \in {"returned", "raised"}

\* the broadcast made in attempt k, if any
BroadcastsOf(k) == {i \in DOMAIN tx_broadcasts : tx_broadcasts[i].attempt = k}

\* C3: build_sign_send_transaction returns (transaction id, receipt) only
\* with a receipt of that transaction whose status is 1, on the broadcast
\* path and on the 'already known' path alike; every other outcome raises.
C3_ReturnOnlySuccessReceipt ==
    /\ tx_return # << >> => tx_pc = "returned"
    /\ tx_pc = "returned" =>
          /\ Len(tx_return) = 1
          /\ tx_return[1].receipt.status = 1
          /\ tx_return[1].receipt.hash = tx_return[1].hash
          /\ tx_raised = << >>
    /\ tx_pc = "raised" => tx_return = << >> /\ Len(tx_raised) = 1
    /\ tx_raised # << >> => tx_pc = "raised"

\* the call returned through the 'already known' path
C3_Witness == tx_pc = "returned" /\ AlreadyKnown(tx_message)

\* C5: every broadcast uses a pending nonce fetched from the ledger in the
\* same attempt, and the broadcast that follows a 'nonce too low' failure
\* carries a strictly greater nonce than the one that failed.
C5_NonceFetchedInSameAttempt ==
    \A i \in DOMAIN tx_broadcasts :
       LET b == tx_broadcasts[i] IN
       /\ b.fetched_in = b.attempt
       /\ \A j \in DOMAIN tx_broadcasts, e \in DOMAIN tx_ends :
             ( /\ tx_broadcasts[j].attempt < b.attempt
               /\ tx_ends[e].attempt = tx_broadcasts[j].attempt
               /\ "nonce too low" \in tx_ends[e].msg )
             => b.nonce > tx_broadcasts[j].nonce

\* a second broadcast was made after a 'nonce too low' failure
C5_Witness ==
    \E i \in DOMAIN tx_broadcasts, e \in DOMAIN tx_ends :
       /\ tx_broadcasts[i].attempt = tx_ends[e].attempt + 1
       /\ "nonce too low" \in tx_ends[e].msg

\* every attempt after the first was started by a retryable error of the
\* attempt before it
AttemptsFollowRetryable ==
    \A k \in 1..tx_attempt :
       \E e \in DOMAIN tx_ends :
          tx_ends[e].attempt = k - 1 /\ Retryable(tx_ends[e].msg)

\* C6: the call terminates after at most retries+1 broadcasts; a further
\* attempt starts only after a retryable error while attempts remain; when
\* it gives up it raises the error of the last attempt.
C6_BoundedAttemptsThenRaise ==
    /\ [] ( /\ Len(tx_broadcasts) <= tx_retries + 1
            /\ \A k \in 0..tx_attempt : Cardinality(BroadcastsOf(k)) <= 1
            /\ tx_attempt <= tx_retries
            /\ AttemptsFollowRetryable
            /\ tx_pc = "raised" =>
                  /\ tx_ends # << >>
                  /\ tx_raised = << tx_ends[Len(tx_ends)] >>
                  /\ tx_raised[1].attempt = tx_attempt )
    /\ <> TxDone

\* the whole default budget of three broadcasts was used and the call raised
C6_Witness ==
    /\ tx_pc = "raised"
    /\ tx_retries = DefaultRetries
    /\ Len(tx_broadcasts) = DefaultRetries + 1

\* an attempt ended by a non-success receipt, or by an error that is neither
\* retryable nor 'already known'
FatalEnd(e) ==
    \/ e.kind \in {"receipt", "known_receipt"}
    \/ ~Retryable(e.msg) /\ ~AlreadyKnown(e.msg)

\* C10: an attempt that ends with a non-success receipt or with an error
\* that is neither retryable nor 'already known' is the last one: no later
\* broadcast is made and that error is raised to the caller.
C10_FatalEndStopsLoop ==
    \A i \in DOMAIN tx_ends :
       LET e == tx_ends[i] IN
       FatalEnd(e) =>
          /\ \A j \in DOMAIN tx_broadcasts : tx_broadcasts[j].attempt <= e.attempt
          /\ tx_attempt = e.attempt
          /\ tx_pc = "raised"
          /\ tx_raised = << e >>

\* a non-success receipt ended the call although attempts remained
C10_Witness ==
    /\ tx_pc = "raised"
    /\ tx_raised[1].kind = "receipt"
    /\ tx_attempt < tx_retries

\* C11: after a broadcast failed with an error containing 'already known'
\* the call broadcasts no more: it waits for the receipt of the hash computed
\* from the transaction signed in that attempt, returns that hash and receipt
\* when the status is 1, and otherwise raises the error of the wait.
C11_AlreadyKnownWaitsNoRebroadcast ==
    \A i \in DOMAIN tx_ends :
       LET e == tx_ends[i] IN
       (e.kind = "send" /\ "already known" \in e.msg) =>
          /\ \A j \in DOMAIN tx_broadcasts : tx_broadcasts[j].attempt <= e.attempt
          /\ tx_attempt = e.attempt
          /\ tx_signed_txn # << >> /\ tx_signed_txn[1].attempt = e.attempt
          /\ tx_pc \in {"wait_known", "returned", "raised"}
          /\ tx_pc = "returned" =>
                /\ tx_return[1].hash = Keccak(tx_signed_txn[1])
                /\ tx_return[1].receipt.status = 1
          /\ tx_pc = "raised" =>
                /\ tx_raised[1].kind \in {"known_receipt", "known_timeout"}
                /\ tx_raised[1].attempt = e.attempt

\* the second attempt's broadcast was 'already known', its receipt was not a
\* success, and the call raised with an attempt to spare
C11_Witness ==
    /\ tx_pc = "raised"
    /\ tx_raised[1].kind = "known_receipt"
    /\ tx_attempt = 1
    /\ tx_retries = DefaultRetries

---------------------------------------------------------------------------
(* Properties of the Gateway *)

\* C21: every authenticated request that is sent carries a non-empty access
\* token obtained from login or refresh; a login that yields no access token
\* makes the call raise without sending the request.
C21_SentRequestsCarryToken ==
    \A c \in Callers :
        gw[c].require_auth =>
           \A i \in DOMAIN gw[c].sent : gw[c].sent[i] # 0

\* what does hold: with requireAuth and no cached token the request is not
\* sent before the login response has arrived
LoginBeforeRequest ==
    \A c \in Callers : gw[c].pc = "login" => gw[c].sent = << >>

\* the step in which the call of caller c returns the 401/403 of its first
\* response because the refresh it triggered did not succeed
RefreshFailedReturn(c) ==
    /\ gw[c].pc \in {"await1", "refresh"}
    /\ gw[c].require_auth
    /\ gw'[c].pc = "done"
    /\ ~gw'[c].raised
    /\ Unauthorized(gw'[c].status)

\* C20: when the refresh triggered by a 401/403 fails for any reason (no
\* refresh token cached, non-200 refresh response, 200 without an access
\* token, transport error), the call leaves the cached access token cleared
\* and returns the original failing response without re-sending the request.
C20_FailedRefreshClearsToken ==
    [][\A c \in Callers :
          RefreshFailedReturn(c) =>
             /\ auth_token' = 0
             /\ gw'[c].result = gw'[c].status
             /\ Len(gw'[c].sent) = 1]_vars

\* the part about the response: the original status is returned and the
\* request is not sent again
FailedRefreshReturnsOriginal ==
    [][\A c \in Callers :
          RefreshFailedReturn(c) =>
             /\ gw'[c].result = gw'[c].status
             /\ gw'[c].sent = gw[c].sent
             /\ Len(gw'[c].sent) = 1]_vars

\* C4: one authenticated Gateway call posts at most one refresh; after a
\* successful refresh it re-sends the request exactly once, with the newly
\* issued token; the status of that second response, 401/403 included, is
\* what the caller gets, with no further refresh or re-send.
C4_OneRefreshOneRetry ==
    \A c \in Callers :
       LET g == gw[c] IN
       /\ g.refresh_posts <= 1
       /\ Len(g.sent) <= 2
       /\ Len(g.sent) = 2 =>
             /\ g.require_auth /\ g.refresh_ok /\ g.refresh_posts = 1
             /\ g.sent[2] > g.sent[1]
       /\ (g.refresh_ok /\ g.pc = "done") => Len(g.sent) = 2
       /\ (g.pc = "done" /\ Len(g.sent) = 2 /\ ~g.raised) =>
             g.result = g.status

\* two consecutive authorization failures: the second one reached the caller
C4_Witness ==
    \E c \in Callers :
       /\ gw[c].pc = "done"
       /\ Len(gw[c].sent) = 2
       /\ Unauthorized(gw[c].result)

---------------------------------------------------------------------------
(* Properties of the monitoring task *)

\* C1: a task that tracks an open position when the time to the contract's
\* end is <= 5 s issues exactly one forced close decision before it ends
\* (finished or timeout): never none, never more than one.
C1_ExactlyOneForcedClose ==
    /\ forced_closes <= 1
    /\ ( /\ game_pc = "ended"
         /\ game_exit \in {"finished", "timeout"}
         /\ held_in_window ) => forced_closes = 1

\* C2: when the ledger submission of a cycle fails, the position tracking
\* (direction, entry price, open time) after the cycle is what it was
\* before the cycle.
C2_FailedSubmissionKeepsTracking ==
    (iter.tx # << >> /\ ~Confirmed(iter.tx[1].outcome))
       => Tracking = iter.before

\* C9: the poll that returns state finished (3) is the task's last: the task
\* ends on it, normally, without calling the oracle, without any ledger
\* submission and without touching the position tracking.
C9_FinishedPollEndsTask ==
    iter.state = 3 =>
       /\ game_pc = "ended"
       /\ game_exit = "finished"
       /\ ~iter.oracle
       /\ ~iter.forced
       /\ iter.tx = << >>
       /\ Tracking = iter.before

\* a poll returned finished while a position was still tracked
C9_Witness ==
    /\ iter.state = 3
    /\ game_exit = "finished"
    /\ current_position # NoPosition

\* C12: a task that ends on the timeout branch has called the ledger's
\* finish action exactly once in that iteration, whatever its outcome, and
\* the call carries the direction and nonce of the position the ledger still
\* holds open for the participant, the default (Long, 0) only when no
\* position is open.
C12_FinishOnceWithOpenPosition ==
    (game_pc = "ended" /\ game_exit = "timeout") =>
       /\ Len(iter.tx) = 1
       /\ iter.tx[1].fn = "finishGame"
       /\ IF ledger_pos # << >>
            THEN /\ iter.tx[1].direction = ledger_pos[1].direction
                 /\ iter.tx[1].nonce = ledger_pos[1].nonce
            ELSE /\ iter.tx[1].direction = "Long"
                 /\ iter.tx[1].nonce = 0

\* C19: postPosition is never submitted while the ledger holds a confirmed,
\* not yet closed position of the participant: a postPosition that was
\* submitted and not confirmed found the ledger without a position (a
\* confirmed one did, by the ledger's own rule, and leaves its position).
C19_NoPostWhilePositionOpen ==
    (iter.tx # << >> /\ iter.tx[1].fn = "postPosition") =>
       IF Confirmed(iter.tx[1].outcome)
         THEN ledger_pos = << [direction |-> iter.tx[1].direction,
                               nonce |-> iter.tx[1].nonce] >>
         ELSE ledger_pos = << >>

\* C13: the oracle is invoked, and postPosition is submitted, only in an
\* iteration whose poll found the contract started with at least 5 seconds
\* left before its end timestamp.
C13_OracleOnlyWithFiveSecondsLeft ==
    ( \/ iter.oracle
      \/ (iter.tx # << >> /\ iter.tx[1].fn = "postPosition") ) =>
       /\ iter.state = StateStarted
       /\ game_end - iter.t >= AutoCloseSeconds

\* the last iteration was a decision cycle that failed: the market read or
\* the oracle call raised, or the submission was not confirmed
CycleFailed ==
    \/ iter.branch \in {"market_error", "oracle_error"}
    \/ (iter.oracle /\ iter.tx # << >> /\ ~Confirmed(iter.tx[1].outcome))

\* C14: a failed market read, oracle call or submission in a decision cycle
\* leaves the monitoring task in its loop; a task that has ended has ended
\* on a finished poll, on the timeout branch or because of stop.
C14_CycleFailureKeepsTask ==
    /\ CycleFailed =>
          (game_pc = "loop" \/ (game_pc = "ended" /\ game_exit = "stopped"))
    /\ game_pc = "ended" => game_exit \in {"finished", "timeout", "stopped"}

\* a submission chosen by the oracle failed and the task is still looping
C14_Witness ==
    /\ iter.oracle
    /\ iter.tx # << >>
    /\ ~Confirmed(iter.tx[1].outcome)
    /\ game_pc = "loop"
    /\ running

---------------------------------------------------------------------------
(* Claims about the discovery loop and the push channel                    *)

NoSearchWhileInGame ==
    tick.in_game \in Contests => ~tick.listing_sent /\ ~tick.addopp_sent

UntrackedContestGetsTask ==
    (tick.in_game \in Contests /\ tick.task_before = "none")
       => tick.task_after = "running"

\* C30: every closePosition that is submitted carries the direction and the
\* nonce of the latest confirmed postPosition of the contest, which are also
\* the latest record of the history store, and it is submitted only by an
\* iteration that began with a position tracked in that direction.
C30_CloseCarriesOpenNonce ==
    \A i \in 1..Len(iter.tx) :
       iter.tx[i].fn = "closePosition" =>
          /\ iter.before[1] \in {"long", "short"}
          /\ (iter.before[1] = "long") <=> (iter.tx[i].direction = "Long")
          /\ iter.last_open = << [direction |-> iter.tx[i].direction,
                                  nonce |-> iter.tx[i].nonce] >>
          /\ db_last = iter.last_open

\* a short position opened with nonce 2 was tracked and its close confirmed
C30_Witness ==
    /\ iter.tx # << >>
    /\ iter.tx[1].fn = "closePosition"
    /\ iter.tx[1].outcome = "confirmed"
    /\ iter.tx[1].direction = "Short"
    /\ iter.tx[1].nonce = 2
    /\ iter.before[1] = "short"
    /\ current_position = "none"

\* C29: the working set holds at most one monitoring task per contest id,
\* and a task that had terminated when a discovery tick started is out of
\* the working set when that tick reaches its sleep.
C29_TerminatedTaskRemoved ==
    disc_pc = "sleep" =>
       \A id \in tick.done_before : active_games[id] = "none"

\* a tick that runs to its end without an exception removes every task that
\* had terminated when it started
CompletedTickRemovesTerminated ==
    (disc_pc = "sleep" /\ ~tick.raised) =>
       \A id \in tick.done_before : active_games[id] = "none"

\* a tick without an exception has removed a terminated task
CompletedTickRemovesTerminated_Witness ==
    /\ disc_pc = "sleep"
    /\ ~tick.raised
    /\ tick.done_before # {}

---------------------------------------------------------------------------
(* Claims about the deferred join                                          *)

\* C16: joinGame is submitted only by the grant-ready handler, right after a
\* grant frame with a signature and a complete request for that contest;
\* announcing a join submits nothing to the ledger; start-fight is sent only
\* after the joinGame of the same handler run was confirmed.
C16_JoinOnlyAfterGrant ==
    \A i \in DOMAIN join_log :
       /\ join_log[i].ev = "joinGame" =>
             /\ i > 1
             /\ join_log[i-1].ev = "grant"
             /\ join_log[i-1].sig
             /\ join_log[i-1].outcome = "complete"
             /\ join_log[i-1].id = join_log[i].id
       /\ join_log[i].ev = "start_fight" =>
             \E j \in 1..(i-1) :
                /\ join_log[j].ev = "joinGame"
                /\ join_log[j].outcome = "confirmed"
                /\ \A k \in (j+1)..(i-1) : join_log[k].ev = "announce"

\* announce, grant, confirmed joinGame, start-fight for the announced id
C16_Witness ==
    /\ Len(join_log) >= 4
    /\ join_log[1].ev = "announce" /\ join_log[1].outcome = "added"
    /\ join_log[2].ev = "grant"
    /\ join_log[3].ev = "joinGame" /\ join_log[3].outcome = "confirmed"
    /\ join_log[4].ev = "start_fight" /\ join_log[4].id = join_log[1].id

\* C26: whenever the grant handler is not running, a non-empty PendingJoin
\* refers to an announced join whose grant has not been consumed: no
\* joinGame has been submitted for that contest since it was announced.
C26_PendingJoinNotConsumed ==
    (pending_trading_fight_id # 0 /\ join_pc = "idle") =>
       \E i \in DOMAIN join_log :
          /\ join_log[i].ev = "announce"
          /\ join_log[i].id = pending_trading_fight_id
          /\ join_log[i].outcome # "no_creator"
          /\ \A j \in (i+1)..Len(join_log) :
                ~( /\ join_log[j].ev = "joinGame"
                   /\ join_log[j].id = pending_trading_fight_id )

\* C24: an exception raised inside a discovery tick leaves the discovery
\* loop at its sleep, from where the next tick starts; the loop never ends
\* while stop has not been requested; and the step in which a monitoring task
\* ends changes neither the position of the discovery loop nor the task of
\* another contest.
C24_DiscoveryLoopSurvives ==
    /\ [](running => disc_pc # "ended")
    /\ [](tick.raised => disc_pc = "sleep")
    /\ [][\A id \in Contests :
            (active_games[id] = "running" /\ active_games'[id] = "done") =>
               /\ disc_pc' = disc_pc
               /\ \A other \in Contests \ {id} :
                     active_games'[other] = active_games[other]]_vars

\* a tick ended by an exception while the task of one contest had ended
\* and the task of the other kept running
C24_Witness ==
    /\ tick.raised
    /\ disc_pc = "sleep"
    /\ \E id, other \in Contests :
          active_games[id] = "done" /\ active_games[other] = "running"

---------------------------------------------------------------------------
(* Claims about stop()                                                     *)

\* the place of a step in StopOrder
StopRank(step) == CHOOSE k \in DOMAIN StopOrder : StopOrder[k] = step

\* C17: the steps stop() performs come in the order cancel the monitoring
\* tasks, await them, cancel the listen task, close the channel, release the
\* Gateway; every cancelled task has ended before the listen task is
\* cancelled; a stop() that returns has cancelled the listen task, closed
\* the channel and released the Gateway; and no monitoring task runs an
\* iteration once stop() has begun, let alone after the channel is closed.
C17_StopOrder ==
    /\ \A i, j \in DOMAIN stop_log :
          i < j => StopRank(stop_log[i]) < StopRank(stop_log[j])
    /\ (\E i \in DOMAIN stop_log : stop_log[i] = "cancel_listen") =>
          \A id \in Contests : active_games[id] # "cancelling"
    /\ stop_pc = "done" =>
          /\ \A k \in {1, 3, 4, 5} :
                \E i \in DOMAIN stop_log : stop_log[i] = StopOrder[k]
          /\ ~ws_open /\ ~ws_running /\ ~session_open
    /\ last_iteration \in {"none", "before_stop"}

\* stop() went through all five steps with a task that had iterated
C17_Witness ==
    /\ stop_pc = "done"
    /\ stop_log = StopOrder
    /\ last_iteration = "before_stop"
    /\ \E id \in Contests : active_games[id] = "done"

---------------------------------------------------------------------------
(* Claims about concurrent ledger submissions                              *)

\* C18: at no time are two ledger submissions for the same contest in
\* progress at once: while the executor thread runs finishGame for a
\* contest, the event-loop thread is not executing a submission for that
\* contest.
C18_SubmissionsSerialized ==
    \A id \in Contests :
        finish_call[id] = "in_thread" => loop_submission.id # id

\* within the event loop and within one monitoring task the submissions of
\* a contest do follow one another
TaskSubmissionsSerialized ==
    \A id \in Contests :
        /\ finish_call[id] # "none" => active_games[id] = "running"
        /\ finish_call[id] = "in_thread" /\ loop_submission.id = id =>
              loop_submission.fn = "joinGame"

---------------------------------------------------------------------------
(* Claims about the listen tasks of the push channel                       *)

\* C22: at any time at most one listen task can consume push frames (every
\* other one has ended or has its cancellation pending), at most one
\* connection is open, a task that can consume is bound to no connection
\* older than the current one, and no frame is handed to _handle_message
\* more than once.
C22_OneListenTask ==
    /\ Cardinality({i \in DOMAIN listen_tasks :
                       Consuming(listen_tasks[i])}) <= 1
    /\ Cardinality(open_conns) <= 1
    /\ \A i \in DOMAIN listen_tasks :
          (Consuming(listen_tasks[i]) /\ listen_tasks[i].st # "created") =>
             listen_tasks[i].conn = ws_socket
    /\ ~duplicate_dispatch

\* after a reconnect the second task has received a frame of the second
\* connection; the first task, which had received one too, has ended
C22_Witness ==
    /\ Len(listen_tasks) = 2
    /\ listen_tasks[1].st = "ended"
    /\ listen_tasks[2].st = "handling"
    /\ << 1, 1 >> \in dispatched
    /\ << 2, 1 >> \in dispatched

---------------------------------------------------------------------------
(* Claims about the decoding and dispatch of push frames                   *)

\* the frame received last is one of those the specification calls malformed
\* or unrecognized: not JSON, not an object, no recognised type, or a grant
\* lacking signature, original_request or one of its four fields
Malformed(frame) ==
    \/ ~frame.json
    \/ ~frame.object
    \/ frame.type = "unknown"
    \/ /\ frame.type \in {"absent", "empty"}
       /\ (frame.signature = "absent" \/ frame.original_request = "absent")
    \/ /\ frame.type \in {"absent", "empty", "signature_ready"}
       /\ (frame.signature # "value" \/ frame.original_request # "complete")

\* C23: a malformed or unrecognized frame causes no ledger submission and no
\* Gateway call, no exception of any frame leaves the listen loop, and the
\* loop is still receiving after it (unless the connection was closed).
C23_MalformedFrameDropped ==
    /\ frame_loop # "exception"
    /\ (last_frame # << >> /\ Malformed(last_frame[1])) =>
          /\ frame_effects = {}
          /\ frame_loop \in {"receiving", "closed"}

\* a frame that is not JSON was received and the loop is still receiving
C23_Witness ==
    /\ last_frame # << >>
    /\ ~last_frame[1].json
    /\ frame_loop = "receiving"
    /\ frame_effects = {}

\* the channel counts as connected and a listen task is receiving on the
\* current connection
ListeningAgain ==
    /\ ws_socket # 0 /\ ws_running
    /\ \E i \in DOMAIN listen_tasks :
          /\ listen_tasks[i].st = "receiving"
          /\ ~listen_tasks[i].cancel
          /\ listen_tasks[i].conn = ws_socket

C28_DispatchByType ==
    (last_frame # << >> /\ last_frame[1].json /\ last_frame[1].object) =>
       LET frame == last_frame[1] IN
       /\ Len(handler_calls) <= 1
       /\ frame.type \in {"signature_ready", "game_joined"} =>
             handler_calls = << frame.type >>
       /\ frame.type = "unknown" => handler_calls = << >>
       /\ frame.type \in {"absent", "empty"} =>
             IF frame.signature # "absent"
                /\ frame.original_request # "absent"
               THEN handler_calls = << "signature_ready" >>
               ELSE handler_calls = << >>

\* an envelope without type, with both members, reached the grant handler
C28_Witness ==
    /\ last_frame # << >>
    /\ last_frame[1].json /\ last_frame[1].object
    /\ last_frame[1].type = "absent"
    /\ last_frame[1].signature = "value"
    /\ last_frame[1].original_request = "complete"
    /\ handler_calls = << "signature_ready" >>
    /\ "joinGame" \in frame_effects

---------------------------------------------------------------------------
(* Claims about opening a position                                         *)

---------------------------------------------------------------------------
(* Claims about the fees of a submission                                   *)

\* the fee that decides whether a transaction replaces another one
OfferedFee(offer) ==
    IF offer.offered.maxFeePerGas # 0 THEN offer.offered.maxFeePerGas
    ELSE offer.offered.gasPrice

\* C32: on the first attempt no fee field is bumped; on every later attempt
\* every fee field that is present is the integer part of 1.15 times its
\* unbumped value; and the default EIP-1559 fields (2 x base fee + tip, tip)
\* are filled in only when the caller supplied neither gasPrice nor
\* maxFeePerGas.
C32_FeesBumpedOnRetry ==
    \A i \in 1..Len(fee_offers) :
       LET o == fee_offers[i] IN
       /\ o.attempt = 0 => o.offered = o.unbumped
       /\ o.attempt > 0 =>
             /\ o.offered.gasPrice = (o.unbumped.gasPrice * 115) \div 100
             /\ o.offered.maxFeePerGas =
                   (o.unbumped.maxFeePerGas * 115) \div 100
             /\ o.offered.maxPriorityFeePerGas =
                   (o.unbumped.maxPriorityFeePerGas * 115) \div 100
       /\ o.defaults = "eip1559" =>
             /\ fee_params.gasPrice = 0 /\ fee_params.maxFeePerGas = 0
             /\ o.unbumped.maxFeePerGas = 2 * o.base + 2
             /\ o.unbumped.maxPriorityFeePerGas = 2
       /\ o.defaults = "none" => o.unbumped = fee_params

\* what holds of C32: no bump on the first attempt, the defaults only for a
\* caller that supplied neither gasPrice nor maxFeePerGas, and on later
\* attempts the pair maxFeePerGas/maxPriorityFeePerGas is bumped when both
\* are present, else gasPrice when it is present
FeesBumpedByScheme ==
    \A i \in 1..Len(fee_offers) :
       LET o == fee_offers[i]
           pair == o.unbumped.maxFeePerGas # 0
                     /\ o.unbumped.maxPriorityFeePerGas # 0
       IN
       /\ o.attempt = 0 => o.offered = o.unbumped
       /\ (o.attempt > 0 /\ pair) =>
             /\ o.offered.maxFeePerGas =
                   (o.unbumped.maxFeePerGas * 115) \div 100
             /\ o.offered.maxPriorityFeePerGas =
                   (o.unbumped.maxPriorityFeePerGas * 115) \div 100
       /\ (o.attempt > 0 /\ ~pair /\ o.unbumped.gasPrice # 0) =>
             o.offered.gasPrice = (o.unbumped.gasPrice * 115) \div 100
       /\ o.defaults = "eip1559" =>
             /\ fee_params.gasPrice = 0 /\ fee_params.maxFeePerGas = 0
             /\ o.unbumped.maxFeePerGas = 2 * o.base + 2
             /\ o.unbumped.maxPriorityFeePerGas = 2
       /\ o.defaults = "none" => o.unbumped = fee_params

\* a retry with default fees: 2 x 30 + 2 = 62 was bumped to 71
FeesBumpedByScheme_Witness ==
    /\ Len(fee_offers) = 2
    /\ fee_offers[2].defaults = "eip1559"
    /\ fee_offers[2].base = 30
    /\ fee_offers[2].offered.maxFeePerGas = 71
    /\ fee_offers[2].offered.maxPriorityFeePerGas = 2

\* C35: while the base fee, or the fee the caller supplied, does not change,
\* every attempt of one call offers strictly more than the attempt before.
C35_EveryRetryOutbids ==
    \A i \in 1..Len(fee_offers) : \A j \in 1..Len(fee_offers) :
       ( /\ j = i + 1
         /\ fee_offers[i].base = fee_offers[j].base
         /\ fee_offers[i].defaults = fee_offers[j].defaults
         /\ fee_offers[i].node_price = fee_offers[j].node_price )
       => OfferedFee(fee_offers[j]) > OfferedFee(fee_offers[i])

\* what holds of C35: with an unchanged base the first retry of a call that
\* uses a bumped scheme offers more than the first attempt, and every later
\* retry offers the same as the first retry
RetriesOfferOneBump ==
    \A i \in 1..Len(fee_offers) : \A j \in 1..Len(fee_offers) :
       ( /\ j = i + 1
         /\ fee_offers[i].unbumped = fee_offers[j].unbumped )
       => IF fee_offers[i].attempt = 0
            THEN OfferedFee(fee_offers[j]) >= OfferedFee(fee_offers[i])
            ELSE OfferedFee(fee_offers[j]) = OfferedFee(fee_offers[i])

---------------------------------------------------------------------------
(* Claims about concurrent Gateway calls                                   *)

\* the tasks whose call is waiting for a login or a refresh response
TokenWritersInFlight == {c \in Callers : gw[c].pc \in {"login", "refresh"}}

\* C33: at any time at most one login or refresh is in flight over all
\* tasks, and a refresh that fails clears the access token only if it is
\* still the token the failing task had sent, never one that another task
\* installed in the meantime.
C33_TokenWritesSerialized ==
    /\ [](Cardinality(TokenWritersInFlight) <= 1)
    /\ [][\A c \in Callers :
            ( /\ gw[c].pc = "refresh"
              /\ gw'[c].pc = "done"
              /\ auth_token # 0
              /\ auth_token' = 0 )
            => auth_token = gw[c].headers]_vars

\* what holds of C33: the access token is written only by the step in which
\* a login or refresh response is handled inside a Gateway call
TokenWrittenOnlyInsideCall ==
    [][auth_token' # auth_token =>
          \E c \in Callers :
             /\ gw[c].pc \in {"login", "refresh"}
             /\ gw'[c].pc # gw[c].pc]_vars

\* two refreshes are in flight at once
TwoRefreshesInFlight ==
    \A c \in Callers : gw[c].pc = "refresh"

---------------------------------------------------------------------------
(* Claims about the position tracking and the ledger                       *)

\* C34: in every state of the monitoring task the tracked position is empty
\* only if the ledger holds no open position of the participant: every
\* postPosition the task got confirmed has been closed by a confirmed
\* closePosition.
C34_NoPositionOnlyWhenClosed ==
    current_position = NoPosition => ledger_pos = << >>

\* what holds of C34: while a position is tracked, the ledger holds that
\* position, with the direction tracked and the nonce of the last record
TrackedPositionIsOnLedger ==
    current_position # NoPosition =>
       /\ ledger_pos # << >>
       /\ ledger_pos = db_last
       /\ (current_position = "long") <=> (ledger_pos[1].direction = "Long")

\* the forced close failed: nothing is tracked, the ledger holds the position
UntrackedAfterFailedAutoClose ==
    /\ iter.forced
    /\ iter.tx # << >>
    /\ iter.tx[1].outcome # "confirmed"
    /\ current_position = NoPosition
    /\ ledger_pos # << >>

\* the record failed after a confirmed open
UntrackedAfterFailedRecord ==
    /\ iter.tx # << >>
    /\ iter.tx[1].fn = "postPosition"
    /\ iter.tx[1].outcome = "confirmed"
    /\ iter.success = "False"
    /\ current_position = NoPosition
    /\ ledger_pos # << >>


---------------------------------------------------------------------------
(* Grant-ready handler: which grants lead to a joinGame submission         *)

\* the joinGame submissions the step adds to the history
NewJoinSubmissions ==
    {i \in (Len(join_log) + 1)..Len(join_log') : join_log'[i].ev = "joinGame"}

\* C36: joinGame is submitted only for a grant whose contest is the one of
\* the outstanding PendingJoin: never while no PendingJoin is outstanding, and
\* never again for a grant that was already consumed by a confirmed joinGame
C36_JoinOnlyForPendingGrant ==
    /\ [][\A i \in NewJoinSubmissions :
             /\ pending_trading_fight_id # 0
             /\ join_log'[i].id = pending_trading_fight_id]_vars
    /\ [](\A i, j \in DOMAIN join_log :
             ( /\ i < j
               /\ join_log[i].ev = "joinGame" /\ join_log[j].ev = "joinGame"
               /\ join_log[i].outcome = "confirmed" )
             => join_log[i].id # join_log[j].id)

\* a joinGame was submitted though nothing had been announced before
JoinWithoutPendingJoin ==
    /\ Len(join_log) >= 2
    /\ join_log[1].ev = "grant"
    /\ join_log[2].ev = "joinGame"
    /\ pending_trading_fight_id = 0

\* the same grant led to a second joinGame after its first one was confirmed
GrantConsumedTwice ==
    \E i, j \in DOMAIN join_log :
       /\ i < j
       /\ join_log[i].ev = "joinGame" /\ join_log[i].outcome = "confirmed"
       /\ join_log[j].ev = "joinGame" /\ join_log[j].id = join_log[i].id

\* C37: a join announcement that sets PendingJoin is made only while no
\* PendingJoin is outstanding, so PendingJoin is never overwritten
C37_OneAnnouncementOutstanding ==
    [][\A i \in (Len(join_log) + 1)..Len(join_log') :
          ( /\ join_log'[i].ev = "announce"
            /\ join_log'[i].outcome # "no_creator" )
          => pending_trading_fight_id = 0]_vars

\* PendingJoin named one contest and now names another, with no grant
\* consumed in between
PendingJoinOverwritten ==
    /\ Len(join_log) >= 2
    /\ join_log[1].ev = "announce" /\ join_log[1].outcome = "added"
    /\ join_log[2].ev = "announce" /\ join_log[2].outcome = "added"
    /\ join_log[1].id # join_log[2].id
    /\ pending_trading_fight_id = join_log[2].id


---------------------------------------------------------------------------
(* Claims about the completion of stop()                                   *)

\* C38: stop() never ends by an exception, and once it has ended the
\* Gateway's connection is released, also when no listen task was ever
\* created and when no contest is tracked
C38_StopAlwaysReleases ==
    /\ stop_pc # "raised"
    /\ stop_pc = "done" => ~session_open

\* a stop() that reached the Gateway release has released it
StopReleasesWhenListenTaskExists ==
    /\ stop_pc = "done" => (~session_open /\ websocket_task # 0)
    /\ stop_pc = "raised" => (session_open /\ websocket_task = 0)

\* stop() raised with no listen task and no contest tracked: the Gateway
\* session is still open
StopRaisedWithoutListenTask ==
    /\ stop_pc = "raised"
    /\ websocket_task = 0
    /\ \A id \in Contests : active_games[id] = "none"
    /\ session_open


---------------------------------------------------------------------------
(* Claims about a reconnect while a frame's handler runs                   *)

\* the listen tasks that are suspended inside the handler of a frame; for
\* a grant frame the handler's awaits are notify_game_joined and
\* start_trading_fight, both after the confirmed joinGame receipt
TasksInHandler == {i \in DOMAIN listen_tasks : listen_tasks[i].st = "handling"}

\* C39: a reconnect never requests the cancellation of the listen task while
\* it is inside a handler, and a task that is inside a handler always leaves
\* it by the handler's return
C39_HandlerNeverCancelled ==
    /\ [](\A i \in TasksInHandler : ~listen_tasks[i].cancel)
    /\ [][\A i \in TasksInHandler :
             listen_tasks'[i].st \in {"handling", "receiving"}]_vars

\* a task leaves a handler without the handler's return only by a
\* cancellation that a reconnect has requested
HandlerLeftOnlyByReturnOrCancel ==
    [][\A i \in TasksInHandler :
          \/ listen_tasks'[i].st \in {"handling", "receiving"}
          \/ listen_tasks[i].cancel /\ listen_tasks'[i].st = "ended"]_vars

\* a reconnect has requested the cancellation of the task that is inside a
\* handler, and the next connection is being made
CancelRequestedInsideHandler ==
    /\ listen_pc \in {"closing", "connecting"}
    /\ \E i \in TasksInHandler : listen_tasks[i].cancel /\ websocket_task = i

=============================================================================
